---- MODULE Spec2Model ----
(***************************************************************************)
(* Hyper-automata simulator: NFH construction (src/src/base.py), the       *)
(* RunManager search (src/src/run_manager.py) and the quantifier           *)
(* evaluator checkMembership / check_models (src/src/simulator.py).        *)
(***************************************************************************)
EXTENDS Integers, Sequences, FiniteSets, TLC

\* ------------------------------------------------------------------ bounds
MaxArity == 2
MaxLen == 2
MaxDelta == 2
MaxWords == 2
MaxCtorDelta == 1
MaxMoves == 2
MaxHwLen == 1

\* ------------------------------------------------------------ value universes
StateNames == {"q0", "q1"}
Idle == "#"
Chars == {"a", "b"}
QuantArgs == {"E", "A", "Z"}
CtorSymbols == {"a", Idle}

RECURSIVE SeqsOfLen(_, _)
SeqsOfLen(S, n) ==
    IF n <= 0 THEN {<<>>}
    ELSE {Append(s, x) : s \in SeqsOfLen(S, n - 1), x \in S}

SeqsUpTo(S, n) == UNION {SeqsOfLen(S, m) : m \in 0..n}

RECURSIVE SubsetsUpTo(_, _)
SubsetsUpTo(S, n) ==
    IF n <= 0 THEN {{}}
    ELSE LET smaller == SubsetsUpTo(S, n - 1)
         IN  smaller \cup {X \cup {x} : X \in smaller, x \in S}

Range(s) == {s[i] : i \in 1..Len(s)}

RECURSIVE Perms(_)
Perms(S) ==
    IF S = {} THEN {<<>>}
    ELSE UNION {{<<x>> \o p : p \in Perms(S \ {x})} : x \in S}

\* --------------------------------------------------------------- NFH.__init__
\* a: the constructor's arguments, a record
\* [states, initial_states, accepting_states, k, delta, alpha, alphabet];
\* a transition is <<source, symbols, target>>, symbols a sequence.
AssertStatesNonEmpty(a) == Cardinality(a.states) > 0
AssertInitialSubset(a) == a.initial_states \subseteq a.states
AssertInitialNonEmpty(a) == Cardinality(a.initial_states) > 0
AssertAcceptingSubset(a) == a.accepting_states \subseteq a.states
AssertAcceptingNonEmpty(a) == Cardinality(a.accepting_states) > 0
AssertEndpoints(a) == \A t \in a.delta : t[1] \in a.states /\ t[3] \in a.states
AssertSymbols(a) ==
    \A t \in a.delta : \A i \in 1..Len(t[2]) :
        t[2][i] \in a.alphabet \/ t[2][i] = Idle
AssertVectorLen(a) == \A t \in a.delta : Len(t[2]) = a.k
AssertQuantifiers(a) == \A i \in 1..Len(a.alpha) : a.alpha[i] \in {"E", "A"}
AssertAlphaLenLE(a) == Len(a.alpha) <= a.k
AssertAlphaLen(a) == Len(a.alpha) = a.k

NFHAsserts(a) ==
    /\ AssertStatesNonEmpty(a)
    /\ AssertInitialSubset(a)
    /\ AssertInitialNonEmpty(a)
    /\ AssertAcceptingSubset(a)
    /\ AssertAcceptingNonEmpty(a)
    /\ AssertEndpoints(a)
    /\ AssertSymbols(a)
    /\ AssertVectorLen(a)
    /\ AssertQuantifiers(a)
    /\ AssertAlphaLen(a)

TransitionMapsSourcesOnly(a) ==
    {tm \in [{t[1] : t \in a.delta} -> SeqsUpTo(a.delta, Cardinality(a.delta))] :
        \A s \in DOMAIN tm : tm[s] \in Perms({t \in a.delta : t[1] = s})}

\* The lists of transition_map are filled in the iteration order of the set
\* delta, which the program does not fix: every order is possible.
TransitionMaps(a) ==
    {tm \in [a.states -> SeqsUpTo(a.delta, Cardinality(a.delta))] :
        \A s \in a.states : tm[s] \in Perms({t \in a.delta : t[1] = s})}

NoNFH == [none |-> TRUE]

NFHInit(a, tm) ==
    [states |-> a.states, alphabet |-> a.alphabet,
     initial_states |-> a.initial_states,
     accepting_states |-> a.accepting_states,
     delta |-> a.delta, k |-> a.k, alpha |-> a.alpha,
     transition_map |-> tm]

\* ------------------------------------------------------------- RunManager
\* A manager is a record [current_state, variables, run_history,
\* initial_assignment]; variables[i] is the buffer (deque) of track i, the
\* dict's keys '1'..'k' in insertion order.
NoAssignment == <<"None">>

RunManagerInit(n, assignment, initial_state) ==
    [current_state |-> initial_state,
     variables |-> assignment,
     run_history |-> <<>>,
     initial_assignment |-> assignment]

\* RunManager(nfh, new_variables, state) as branch() calls it: the dict is
\* kept as given and no initial assignment is recorded.
RunManagerFromDict(n, variables, initial_state) ==
    [current_state |-> initial_state,
     variables |-> variables,
     run_history |-> <<>>,
     initial_assignment |-> NoAssignment]

acceptingStateAnyBuffers(n, m) == m.current_state \in n.accepting_states

acceptingState(n, m) ==
    /\ m.current_state \in n.accepting_states
    /\ \A i \in 1..Len(m.variables) : Len(m.variables[i]) = 0

current_char(m, i) ==
    IF m.variables[i] # <<>> THEN Head(m.variables[i]) ELSE Idle

TransitionValidNoEmptyCheck(m, t) ==
    \A i \in 1..Len(t[2]) :
        t[2][i] = Idle \/ m.variables[i] = <<>> \/ t[2][i] = Head(m.variables[i])

TransitionValid(m, t) ==
    \A i \in 1..Len(t[2]) :
        ~(t[2][i] # Idle /\ t[2][i] # current_char(m, i))

valid_transitions(n, m) ==
    LET ok(t) == TransitionValid(m, t)
    IN  SelectSeq(n.transition_map[m.current_state], ok)

\* move(): the assignments happen before the buffers are popped, in track
\* order; popleft() on an empty deque raises IndexError and leaves the
\* earlier effects in place.
MoveAsserts(n, m, t) == t \in n.delta /\ t[1] = m.current_state

PopFails(m, t) ==
    {i \in 1..Len(t[2]) : t[2][i] # Idle /\ m.variables[i] = <<>>}

MoveRaises(m, t) == PopFails(m, t) # {}

FirstPopFail(m, t) ==
    IF MoveRaises(m, t)
    THEN CHOOSE i \in PopFails(m, t) : \A j \in PopFails(m, t) : i <= j
    ELSE Len(t[2]) + 1

movePopAll(m, t) ==
    [m EXCEPT !.current_state = t[3],
              !.run_history = Append(@, t),
              !.variables = [i \in 1..Len(m.variables) |->
                  IF m.variables[i] # <<>>
                  THEN Tail(m.variables[i]) ELSE m.variables[i]]]

moveNoPop(m, t) ==
    [m EXCEPT !.current_state = t[3], !.run_history = Append(@, t)]

\* (removes the last character of a buffer instead of the first)
movePopRight(m, t) ==
    [m EXCEPT !.current_state = t[3],
              !.run_history = Append(@, t),
              !.variables = [i \in 1..Len(m.variables) |->
                  IF i <= Len(t[2]) /\ t[2][i] # Idle /\ m.variables[i] # <<>>
                  THEN SubSeq(m.variables[i], 1, Len(m.variables[i]) - 1)
                  ELSE m.variables[i]]]

move(m, t) ==
    [m EXCEPT !.current_state = t[3],
              !.run_history = Append(@, t),
              !.variables = [i \in 1..Len(m.variables) |->
                  IF i <= Len(t[2]) /\ t[2][i] # Idle /\ i < FirstPopFail(m, t)
                  THEN Tail(m.variables[i]) ELSE m.variables[i]]]

branchNoHistory(n, m, t) ==
    [move(RunManagerFromDict(n, m.variables, m.current_state), t)
        EXCEPT !.run_history = <<>>]

branch(n, m, t) ==
    move(RunManagerFromDict(n, m.variables, m.current_state), t)

\* run(): the search of one manager, with the managers it branches into.
\* The procedure is a function of the configuration (state, buffers), so it
\* fails to return exactly when a configuration comes back while it is still
\* being worked on: inside one manager's loop that is an endless loop
\* ("hang"), through branch() an unbounded recursion ("RecursionError").
\* path: the configurations being worked on, outermost first, each with
\* whether the search branched there.
Config(m) == <<m.current_state, m.variables>>

OnPath(path, m) == \E i \in 1..Len(path) : path[i].cfg = Config(m)

CycleOutcome(path, m) ==
    LET first == CHOOSE i \in 1..Len(path) : path[i].cfg = Config(m)
    IN  IF \E j \in first..Len(path) : path[j].branched
        THEN "RecursionError" ELSE "hang"

RECURSIVE RunFrom(_, _, _)
RECURSIVE TryBranches(_, _, _, _)

TryBranchesNoBacktrack(n, m, vt, path) ==
    LET child == RunFrom(n, branch(n, m, Head(vt)), path)
    IN  IF child.res = "True"
        THEN [res |-> "True",
              mgr |-> [m EXCEPT !.run_history = @ \o child.mgr.run_history]]
        ELSE [res |-> child.res, mgr |-> m]

TryBranches(n, m, vt, path) ==
    IF vt = <<>> THEN [res |-> "False", mgr |-> m]
    ELSE LET child == RunFrom(n, branch(n, m, Head(vt)), path)
         IN  IF child.res = "True"
             THEN [res |-> "True",
                   mgr |-> [m EXCEPT !.run_history = @ \o child.mgr.run_history]]
             ELSE IF child.res = "False"
             THEN TryBranches(n, m, Tail(vt), path)
             ELSE [res |-> child.res, mgr |-> m]

RunFromMovesFirst(n, m, path) ==
    LET vt == valid_transitions(n, m)
    IN  IF Len(vt) = 0
        THEN [res |-> IF acceptingState(n, m) THEN "True" ELSE "False", mgr |-> m]
        ELSE IF OnPath(path, m)
        THEN [res |-> CycleOutcome(path, m), mgr |-> m]
        ELSE IF Len(vt) = 1
        THEN RunFrom(n, move(m, vt[1]),
                     Append(path, [cfg |-> Config(m), branched |-> FALSE]))
        ELSE TryBranches(n, m, vt,
                     Append(path, [cfg |-> Config(m), branched |-> TRUE]))

RunFrom(n, m, path) ==
    IF acceptingState(n, m) THEN [res |-> "True", mgr |-> m]
    ELSE LET vt == valid_transitions(n, m)
         IN  IF Len(vt) = 0 THEN [res |-> "False", mgr |-> m]
             ELSE IF OnPath(path, m)
             THEN [res |-> CycleOutcome(path, m), mgr |-> m]
             ELSE IF Len(vt) = 1
             THEN RunFrom(n, move(m, vt[1]),
                          Append(path, [cfg |-> Config(m), branched |-> FALSE]))
             ELSE TryBranches(n, m, vt,
                          Append(path, [cfg |-> Config(m), branched |-> TRUE]))

run(n, m) == RunFrom(n, m, <<>>)

Returned(r) == r.res \in {"True", "False"}

\* The configurations at which run() calls valid_transitions(), in the
\* order of the calls, the calls made inside the branches included.
RECURSIVE ExpandedFrom(_, _, _)
RECURSIVE ExpandedBranches(_, _, _, _)

ExpandedBranches(n, m, vt, path) ==
    IF vt = <<>> THEN <<>>
    ELSE LET b == branch(n, m, Head(vt))
         IN  ExpandedFrom(n, b, path) \o
             (IF RunFrom(n, b, path).res = "False"
              THEN ExpandedBranches(n, m, Tail(vt), path) ELSE <<>>)

ExpandedFrom(n, m, path) ==
    IF acceptingState(n, m) THEN <<>>
    ELSE LET vt == valid_transitions(n, m)
         IN  IF Len(vt) = 0 \/ OnPath(path, m) THEN <<Config(m)>>
             ELSE IF Len(vt) = 1
             THEN <<Config(m)>> \o
                  ExpandedFrom(n, move(m, vt[1]),
                      Append(path, [cfg |-> Config(m), branched |-> FALSE]))
             ELSE <<Config(m)>> \o
                  ExpandedBranches(n, m, vt,
                      Append(path, [cfg |-> Config(m), branched |-> TRUE]))

\* ------------------------------------------------------------- simulator
\* A result is [res, managers, built]: res is "True" or "False" when the call
\* returned that boolean, otherwise the way it failed to; managers is the
\* returned list; built lists the assignments a RunManager was built and run
\* for, in order.  S is the hyperword in iteration order; fi is the state
\* the RunManager constructor picks when it is given no initial state.
Result(res, managers, built) ==
    [res |-> res, managers |-> managers, built |-> built]

RunManagerDefault(n, fi, assignment) == RunManagerInit(n, assignment, fi)

Extend(assignment, var_idx, word) ==
    [j \in (DOMAIN assignment) \cup {var_idx} |->
        IF j = var_idx THEN word ELSE assignment[j]]

EmptyAssignment == [j \in {} |-> <<>>]

QuantifiersFromZero(n) == [i \in 1..n.k |-> <<n.alpha[i], i - 1>>]

QuantifiersReversed(n) == [i \in 1..n.k |-> <<n.alpha[n.k + 1 - i], i>>]

Quantifiers(n) == [i \in 1..n.k |-> <<n.alpha[i], i>>]

LeafNoRun(n, fi, final_assignment) ==
    Result("True", <<RunManagerDefault(n, fi, final_assignment)>>,
           <<final_assignment>>)

Leaf(n, fi, final_assignment) ==
    LET r == run(n, RunManagerDefault(n, fi, final_assignment))
    IN  IF r.res = "True"
        THEN Result("True", <<r.mgr>>, <<final_assignment>>)
        ELSE Result(r.res, <<>>, <<final_assignment>>)

RECURSIVE check_models(_, _, _, _, _)
RECURSIVE ExistsLoop(_, _, _, _, _, _, _)
RECURSIVE ForAllLoop(_, _, _, _, _, _, _, _)

ExistsLoopFirstOnly(n, fi, S, quantifiers, assignment, i, built) ==
    LET r == check_models(n, fi, S, Tail(quantifiers),
                          Extend(assignment, Head(quantifiers)[2], S[i]))
    IN  Result(r.res, r.managers, built \o r.built)

ExistsLoop(n, fi, S, quantifiers, assignment, i, built) ==
    IF i > Len(S) THEN Result("False", <<>>, built)
    ELSE LET r == check_models(n, fi, S, Tail(quantifiers),
                               Extend(assignment, Head(quantifiers)[2], S[i]))
         IN  IF r.res = "True"
             THEN Result("True", r.managers, built \o r.built)
             ELSE IF r.res = "False"
             THEN ExistsLoop(n, fi, S, quantifiers, assignment, i + 1,
                             built \o r.built)
             ELSE Result(r.res, <<>>, built \o r.built)

ForAllLoopKeepsManagers(n, fi, S, quantifiers, assignment, i, all_managers, built) ==
    IF i > Len(S) THEN Result("True", all_managers, built)
    ELSE LET r == check_models(n, fi, S, Tail(quantifiers),
                               Extend(assignment, Head(quantifiers)[2], S[i]))
         IN  IF r.res = "True"
             THEN ForAllLoop(n, fi, S, quantifiers, assignment, i + 1,
                             all_managers \o r.managers, built \o r.built)
             ELSE Result(r.res, all_managers, built \o r.built)

ForAllLoopLastOnly(n, fi, S, quantifiers, assignment, i, all_managers, built) ==
    IF i > Len(S) THEN Result("True", all_managers, built)
    ELSE LET r == check_models(n, fi, S, Tail(quantifiers),
                               Extend(assignment, Head(quantifiers)[2], S[i]))
         IN  IF r.res = "True"
             THEN ForAllLoop(n, fi, S, quantifiers, assignment, i + 1,
                             r.managers, built \o r.built)
             ELSE Result(r.res, <<>>, built \o r.built)

ForAllLoopKeepsGoing(n, fi, S, quantifiers, assignment, i, all_managers, built) ==
    IF i > Len(S) THEN Result("True", all_managers, built)
    ELSE LET r == check_models(n, fi, S, Tail(quantifiers),
                               Extend(assignment, Head(quantifiers)[2], S[i]))
         IN  IF r.res = "True"
             THEN ForAllLoop(n, fi, S, quantifiers, assignment, i + 1,
                             all_managers \o r.managers, built \o r.built)
             ELSE IF r.res = "False"
             THEN LET rest == ForAllLoop(n, fi, S, quantifiers, assignment, i + 1,
                                         <<>>, built \o r.built)
                  IN  Result(IF rest.res = "True" THEN "False" ELSE rest.res,
                             <<>>, rest.built)
             ELSE Result(r.res, <<>>, built \o r.built)

ForAllLoop(n, fi, S, quantifiers, assignment, i, all_managers, built) ==
    IF i > Len(S) THEN Result("True", all_managers, built)
    ELSE LET r == check_models(n, fi, S, Tail(quantifiers),
                               Extend(assignment, Head(quantifiers)[2], S[i]))
         IN  IF r.res = "True"
             THEN ForAllLoop(n, fi, S, quantifiers, assignment, i + 1,
                             all_managers \o r.managers, built \o r.built)
             ELSE Result(r.res, <<>>, built \o r.built)

check_models(n, fi, S, quantifiers, assignment) ==
    IF quantifiers = <<>>
    THEN IF \E i \in 1..n.k : i \notin DOMAIN assignment
         THEN Result("KeyError", <<>>, <<>>)
         ELSE Leaf(n, fi, [i \in 1..n.k |-> assignment[i]])
    ELSE IF Head(quantifiers)[1] = "E"
    THEN IF Len(S) = 0 THEN Result("False", <<>>, <<>>)
         ELSE ExistsLoop(n, fi, S, quantifiers, assignment, 1, <<>>)
    ELSE IF Head(quantifiers)[1] = "A"
    THEN IF Len(S) = 0 THEN Result("True", <<>>, <<>>)
         ELSE ForAllLoop(n, fi, S, quantifiers, assignment, 1, <<>>, <<>>)
    ELSE Result("None", <<>>, <<>>)

checkMembershipSkipsRun(n, fi, S) ==
    IF Len(S) = 1
    THEN LeafNoRun(n, fi, [i \in 1..n.k |-> S[1]])
    ELSE check_models(n, fi, S, Quantifiers(n), EmptyAssignment)

checkMembershipAtMostOne(n, fi, S) ==
    IF Len(S) = 0 THEN Result("StopIteration", <<>>, <<>>)
    ELSE IF Len(S) = 1 THEN Leaf(n, fi, [i \in 1..n.k |-> S[1]])
    ELSE check_models(n, fi, S, Quantifiers(n), EmptyAssignment)

checkMembership(n, fi, S) ==
    IF Len(S) = 1
    THEN Leaf(n, fi, [i \in 1..n.k |-> S[1]])
    ELSE check_models(n, fi, S, Quantifiers(n), EmptyAssignment)

\* ------------------------------------------------------------------- state
VARIABLES
    args,           \* arguments of the NFH constructor call
    nfh,            \* the NFH object, NoNFH when construction raised
    first_initial,  \* list(nfh.initial_states)[0], fixed by the set's order
    hw,             \* the hyperword's words in the set's iteration order
    mgr,            \* the manager the operations act on
    child,          \* the manager branch() returned last
    op,             \* the operation that produced this state
    arg,            \* the argument that operation was called with
    ret,            \* what that operation returned or raised
    clock,          \* what time.time() returns now
    stack,          \* the call stack of a search that reads the clock
    heap            \* the deque objects, where buffers are held by reference

vars == <<args, nfh, first_initial, hw, mgr, child, op, arg, ret, clock, stack,
          heap>>

NoManager == [none |-> TRUE]

\* ret is a record: raised names the exception ("no" when the call returned,
\* "hang" when it never returns), value what was returned.
Returns(v) == [raised |-> "no", value |-> v]
Raises(e) == [raised |-> e, value |-> "None"]

\* ------------------------------------------- specification: NFH construction
CtorTransitions ==
    {<<s, v, t>> : s \in StateNames, v \in SeqsUpTo(CtorSymbols, MaxArity),
                   t \in StateNames}

CtorArgs ==
    [states : SUBSET StateNames,
     initial_states : SUBSET StateNames,
     accepting_states : SUBSET StateNames,
     k : (-1)..MaxArity,
     delta : SubsetsUpTo(CtorTransitions, MaxCtorDelta),
     alpha : SeqsUpTo(QuantArgs, MaxArity),
     alphabet : SUBSET CtorSymbols]

InitNFH ==
    /\ args \in CtorArgs
    /\ nfh = NoNFH
    /\ first_initial = "none"
    /\ hw = <<>>
    /\ mgr = NoManager
    /\ child = NoManager
    /\ op = "args"
    /\ arg = "None"
    /\ ret = Returns("None")
    /\ clock = 0
    /\ stack = <<>>
    /\ heap = <<>>

ConstructOk ==
    /\ op = "args"
    /\ NFHAsserts(args)
    /\ \E tm \in TransitionMaps(args) : nfh' = NFHInit(args, tm)
    /\ op' = "NFH"
    /\ ret' = Returns("NFH")
    /\ UNCHANGED <<args, first_initial, hw, mgr, child, arg, clock, stack, heap>>

ConstructRaises ==
    /\ op = "args"
    /\ ~NFHAsserts(args)
    /\ nfh' = NoNFH
    /\ op' = "NFH"
    /\ ret' = Raises("AssertionError")
    /\ UNCHANGED <<args, first_initial, hw, mgr, child, arg, clock, stack, heap>>

NextNFH == ConstructOk \/ ConstructRaises

SpecNFH == InitNFH /\ [][NextNFH]_vars

\* ------------------------------------------------- claims on NFH construction
C10_Violation(a) ==
    \/ a.states = {}
    \/ a.initial_states = {} \/ ~(a.initial_states \subseteq a.states)
    \/ a.accepting_states = {} \/ ~(a.accepting_states \subseteq a.states)
    \/ \E t \in a.delta : t[1] \notin a.states \/ t[3] \notin a.states
    \/ \E t \in a.delta : \E i \in 1..Len(t[2]) :
          t[2][i] \notin a.alphabet /\ t[2][i] # Idle
    \/ \E t \in a.delta : Len(t[2]) # a.k
    \/ \E i \in 1..Len(a.alpha) : a.alpha[i] \notin {"E", "A"}
    \/ Len(a.alpha) # a.k

\* C10: NFH construction raises, and yields no NFH, whenever the states are
\* empty, the initial or the accepting states are empty or not among the
\* states, a transition has an endpoint outside the states, a symbol outside
\* the alphabet and the idle marker, or a vector whose length is not k, an
\* alpha entry is neither 'E' nor 'A', or alpha has not k entries; when none
\* of these holds it succeeds.
C10_ConstructionContract ==
    op = "NFH" =>
        IF C10_Violation(args)
        THEN ret.raised = "AssertionError" /\ nfh = NoNFH
        ELSE ret = Returns("NFH") /\ nfh # NoNFH

C10_Witness ==
    /\ op = "NFH"
    /\ ret.raised = "AssertionError"
    /\ args.delta # {}
    /\ Len(args.alpha) < args.k
    /\ ~C10_Violation([args EXCEPT !.alpha = @ \o <<"E">>])

\* C11: NFH construction raises for every definition with k <= 0, whatever
\* the other arguments are (an empty alpha and an empty delta included).
C11_NonPositiveKFails ==
    (op = "NFH" /\ args.k <= 0) => (ret.raised = "AssertionError" /\ nfh = NoNFH)

\* C12: NFH construction raises whenever the alphabet contains the idle
\* marker '#', so that no NFH has the idle marker among its alphabet symbols.
C12_IdleInAlphabetFails ==
    (op = "NFH" /\ Idle \in args.alphabet) =>
        (ret.raised = "AssertionError" /\ nfh = NoNFH)

\* C13: after a successful construction transition_map has one key per state
\* and no other key, the list under a state holds, each once, exactly the
\* transitions of delta that leave it (none: the empty list), and so every
\* transition of delta is listed under its source.
C13_TransitionMapIndex ==
    (op = "NFH" /\ ret = Returns("NFH")) =>
        /\ DOMAIN nfh.transition_map = args.states
        /\ \A s \in args.states :
            LET from_s == {t \in args.delta : t[1] = s}
            IN  /\ Range(nfh.transition_map[s]) = from_s
                /\ Len(nfh.transition_map[s]) = Cardinality(from_s)
        /\ \A t \in args.delta :
            /\ t[1] \in DOMAIN nfh.transition_map
            /\ t \in Range(nfh.transition_map[t[1]])

C13_Witness ==
    /\ op = "NFH"
    /\ ret = Returns("NFH")
    /\ args.states = StateNames
    /\ \E s \in args.states : nfh.transition_map[s] = <<>>
    /\ \E s \in args.states : Len(nfh.transition_map[s]) = MaxCtorDelta

\* ------------------------------------------ the automata the searches run on
\* Every definition NFH.__init__ accepts with at most MaxDelta transitions
\* over StateNames and Chars, each with every order of its transition lists.
Words == SeqsUpTo(Chars, MaxLen)

Transitions(k) ==
    {<<s, v, t>> : s \in StateNames, v \in SeqsOfLen(Chars \cup {Idle}, k),
                   t \in StateNames}

NFHArgs(k) ==
    [states : {StateNames},
     initial_states : SUBSET StateNames,
     accepting_states : SUBSET StateNames,
     k : {k},
     delta : SubsetsUpTo(Transitions(k), MaxDelta),
     alpha : SeqsOfLen({"E", "A"}, k),
     alphabet : {Chars}]

ValidArgs(k) == {a \in NFHArgs(k) : NFHAsserts(a)}

\* The assignments of k words with at most MaxLen characters in all.
RECURSIVE TotalLen(_)
TotalLen(ws) == IF ws = <<>> THEN 0 ELSE Len(Head(ws)) + TotalLen(Tail(ws))

Assignments(k) == {ws \in SeqsOfLen(Words, k) : TotalLen(ws) <= MaxLen}

\* ------------------------------------- specification: RunManager operations
RunOutcome(r) == IF Returned(r) THEN Returns(r.res) ELSE Raises(r.res)

Init ==
    /\ \E k \in 1..MaxArity :
        /\ args \in {a \in ValidArgs(k) :
                        /\ a.initial_states = {"q0"}
                        /\ \A i \in 1..k : a.alpha[i] = "E"}
        /\ \E ws \in Assignments(k) :
            /\ nfh \in {NFHInit(args, tm) : tm \in TransitionMaps(args)}
            /\ first_initial \in args.initial_states
            /\ mgr = RunManagerInit(nfh, ws, first_initial)
    /\ hw = <<>>
    /\ child = NoManager
    /\ op = "RunManager"
    /\ arg = "None"
    /\ ret = Returns("None")
    /\ clock = 0
    /\ stack = <<>>
    /\ heap = <<>>

\* The calls made on one manager: moves, then one of the other operations.
Callable == op \in {"RunManager", "move"} /\ ret.raised = "no"

ValidTransitions ==
    /\ Callable
    /\ op' = "valid_transitions"
    /\ arg' = "None"
    /\ ret' = Returns(valid_transitions(nfh, mgr))
    /\ UNCHANGED <<args, nfh, first_initial, hw, mgr, child, clock, stack, heap>>

Move ==
    /\ Callable
    /\ Len(mgr.run_history) < MaxMoves
    /\ \E t \in nfh.delta :
        /\ MoveAsserts(nfh, mgr, t)
        /\ arg' = t
        /\ mgr' = move(mgr, t)
        /\ ret' = IF MoveRaises(mgr, t) THEN Raises("IndexError")
                  ELSE Returns("None")
    /\ op' = "move"
    /\ UNCHANGED <<args, nfh, first_initial, hw, child, clock, stack, heap>>

Branch ==
    /\ Callable
    /\ \E t \in nfh.delta :
        /\ MoveAsserts(nfh, mgr, t)
        /\ arg' = t
        /\ IF MoveRaises(mgr, t)
           THEN ret' = Raises("IndexError") /\ child' = child
           ELSE ret' = Returns("RunManager") /\ child' = branch(nfh, mgr, t)
    /\ op' = "branch"
    /\ UNCHANGED <<args, nfh, first_initial, hw, mgr, clock, stack, heap>>

Run ==
    /\ Callable
    /\ LET r == run(nfh, mgr)
       IN  mgr' = r.mgr /\ ret' = RunOutcome(r)
    /\ op' = "run"
    /\ arg' = "None"
    /\ UNCHANGED <<args, nfh, first_initial, hw, child, clock, stack, heap>>

Next == ValidTransitions \/ Move \/ Branch \/ Run

Spec == Init /\ [][Next]_vars

\* ----------------------------------------------------- claims on RunManager
\* What the claims speak of, stated over delta and the words themselves.
Applicable(bufs, t) ==
    \A i \in 1..Len(t[2]) :
        \/ t[2][i] = Idle
        \/ (Len(bufs[i]) > 0 /\ bufs[i][1] = t[2][i])

Consume(bufs, t) ==
    [i \in 1..Len(bufs) |->
        IF t[2][i] = Idle THEN bufs[i] ELSE SubSeq(bufs[i], 2, Len(bufs[i]))]

Successors(n, c) ==
    {<<t[3], Consume(c[2], t)>> :
        t \in {u \in n.delta : u[1] = c[1] /\ Applicable(c[2], u)}}

RECURSIVE ReachableFrom(_, _, _)
ReachableFrom(n, frontier, seen) ==
    IF frontier = {} THEN seen
    ELSE LET next == (UNION {Successors(n, c) : c \in frontier}) \ seen
         IN  ReachableFrom(n, next, seen \cup next)

CleanAccepting(n, c) ==
    c[1] \in n.accepting_states /\ \A i \in 1..Len(c[2]) : c[2][i] = <<>>

AcceptingRunExists(n, c) ==
    \E d \in ReachableFrom(n, {c}, {c}) : CleanAccepting(n, d)

\* C2: a run() that returns says True exactly when some finite sequence of
\* applicable transitions leads from the configuration it started in to an
\* accepting state with every buffer empty.
C2_RunDecidesCleanAcceptance ==
    [][(op' = "run" /\ ret'.raised = "no") =>
        ((ret'.value = "True") <=> AcceptingRunExists(nfh, Config(mgr)))]_vars

\* The fresh manager the constructor built for the manager now in mgr.
Fresh == RunManagerInit(nfh, mgr.initial_assignment, first_initial)

RanFresh == op = "run" /\ Config(mgr) = Config(Fresh)

C2_Witness ==
    /\ RanFresh
    /\ ret = Returns("True")
    /\ Len(valid_transitions(nfh, Fresh)) > 1
    /\ Len(mgr.run_history) > 0
    /\ mgr.run_history[1] # valid_transitions(nfh, Fresh)[1]

\* Replay of a history over the words: cur[i] is the cursor of track i.
RECURSIVE ReplayEndsAccepting(_, _, _, _, _)
ReplayEndsAccepting(n, words, q, cur, hist) ==
    IF hist = <<>>
    THEN q \in n.accepting_states /\ \A i \in 1..Len(words) : cur[i] = Len(words[i])
    ELSE LET t == Head(hist)
         IN  /\ t \in n.delta
             /\ t[1] = q
             /\ \A i \in 1..Len(words) :
                    t[2][i] # Idle =>
                        (cur[i] < Len(words[i]) /\ words[i][cur[i] + 1] = t[2][i])
             /\ ReplayEndsAccepting(n, words, t[3],
                    [i \in 1..Len(words) |->
                        IF t[2][i] # Idle THEN cur[i] + 1 ELSE cur[i]],
                    Tail(hist))

ZeroCursors(words) == [i \in 1..Len(words) |-> 0]

\* C3: when run() returns True the transitions it added to run_history form a
\* witness: they start at the state run() started in, chain target to
\* source, read the words from cursor 0 and end accepting with every cursor
\* at the end of its word.  For a fresh manager that is all of run_history.
C3_HistoryIsWitness ==
    [][(op' = "run" /\ ret' = Returns("True")) =>
        /\ Len(mgr'.run_history) >= Len(mgr.run_history)
        /\ SubSeq(mgr'.run_history, 1, Len(mgr.run_history)) = mgr.run_history
        /\ ReplayEndsAccepting(nfh, mgr.variables, mgr.current_state,
               ZeroCursors(mgr.variables),
               SubSeq(mgr'.run_history, Len(mgr.run_history) + 1,
                      Len(mgr'.run_history)))]_vars

C3_Witness ==
    /\ RanFresh
    /\ ret = Returns("True")
    /\ Len(mgr.run_history) >= 2
    /\ Len(valid_transitions(nfh, Fresh)) > 1
    /\ \E i \in 1..Len(mgr.run_history) : \E j \in 1..nfh.k :
          mgr.run_history[i][2][j] = Idle /\ mgr.initial_assignment[j] # <<>>

\* C4: valid_transitions() returns, each once, exactly the transitions of
\* delta that leave current_state and whose symbol on every track is the idle
\* marker or the first remaining character of the track's buffer; an empty
\* buffer matches the idle marker only.
C4_ValidTransitionsExact ==
    op = "valid_transitions" =>
        /\ Range(ret.value) =
             {t \in nfh.delta : t[1] = mgr.current_state
                                 /\ Applicable(mgr.variables, t)}
        /\ Cardinality(Range(ret.value)) = Len(ret.value)

C4_Witness ==
    /\ op = "valid_transitions"
    /\ Len(ret.value) = 1
    /\ \E t \in nfh.delta :
          /\ t[1] = mgr.current_state
          /\ t \notin Range(ret.value)
          /\ \E i \in 1..nfh.k : t[2][i] # Idle /\ mgr.variables[i] = <<>>
          /\ \A i \in 1..nfh.k : mgr.variables[i] # <<>> =>
                 t[2][i] \in {Idle, mgr.variables[i][1]}

\* C5: a move(t) that returns sets current_state to t's target, appends t to
\* run_history, removes the first character of every track whose symbol is
\* not idle and leaves the other buffers as they were.
C5_MoveEffect ==
    [][(op' = "move" /\ ret'.raised = "no") =>
        /\ mgr'.current_state = arg'[3]
        /\ mgr'.run_history = mgr.run_history \o <<arg'>>
        /\ \A i \in 1..nfh.k :
              IF arg'[2][i] = Idle
              THEN mgr'.variables[i] = mgr.variables[i]
              ELSE /\ Len(mgr'.variables[i]) = Len(mgr.variables[i]) - 1
                   /\ <<mgr.variables[i][1]>> \o mgr'.variables[i]
                          = mgr.variables[i]]_vars

C5_Witness ==
    /\ op = "move"
    /\ ret.raised = "no"
    /\ Len(mgr.run_history) = 2
    /\ \E i, j \in 1..nfh.k :
          /\ arg[2][i] = Idle /\ mgr.variables[i] # <<>>
          /\ arg[2][j] # Idle

\* ------------------------------------------ specification: the simulator
HwWords == SeqsUpTo(Chars, MaxHwLen)

\* A hyperword is a set of words; iterating it visits them in some order.
Hyperwords == UNION {Perms(X) : X \in SubsetsUpTo(HwWords, MaxWords)}

InitCM ==
    /\ \E k \in 0..MaxArity :
        /\ args \in {a \in ValidArgs(k) : a.initial_states = {"q0"}}
        /\ nfh \in {NFHInit(args, tm) : tm \in TransitionMaps(args)}
        /\ first_initial \in args.initial_states
    /\ hw \in Hyperwords
    /\ mgr = NoManager
    /\ child = NoManager
    /\ op = "args"
    /\ arg = "None"
    /\ ret = Returns("None")
    /\ clock = 0
    /\ stack = <<>>
    /\ heap = <<>>

SimOutcome(r) ==
    IF r.res \in {"True", "False"}
    THEN Returns([accepted |-> r.res, managers |-> r.managers, built |-> r.built])
    ELSE [raised |-> r.res,
          value |-> [accepted |-> "None", managers |-> <<>>, built |-> r.built]]

CheckMembership ==
    /\ op = "args"
    /\ op' = "checkMembership"
    /\ ret' = SimOutcome(checkMembership(nfh, first_initial, hw))
    /\ UNCHANGED <<args, nfh, first_initial, hw, mgr, child, arg, clock, stack, heap>>

CheckModels ==
    /\ op = "args"
    /\ op' = "check_models"
    /\ ret' = SimOutcome(check_models(nfh, first_initial, hw, Quantifiers(nfh),
                                      EmptyAssignment))
    /\ UNCHANGED <<args, nfh, first_initial, hw, mgr, child, arg, clock, stack, heap>>

NextCM == CheckMembership \/ CheckModels

SpecCM == InitCM /\ [][NextCM]_vars

\* ------------------------------------------------- claims on the simulator
\* The verdict of RunManager(A, ws).run(): "True", "False", or the way the
\* search fails to return.
Accept(n, fi, ws) == run(n, RunManagerDefault(n, fi, ws)).res

\* The truth value of  Q_i x_i in S. ... Q_k x_k in S. Accept(ws, x_i..x_k),
\* "undef" when it rests on a search that does not return.
RECURSIVE QuantifiedValue(_, _, _, _, _)
QuantifiedValue(n, fi, alpha, words, ws) ==
    IF Len(ws) = Len(alpha)
    THEN LET v == Accept(n, fi, ws)
         IN  IF v \in {"True", "False"} THEN v ELSE "undef"
    ELSE LET vals == {QuantifiedValue(n, fi, alpha, words, Append(ws, w)) :
                         w \in words}
         IN  IF alpha[Len(ws) + 1] = "E"
             THEN IF "True" \in vals THEN "True"
                  ELSE IF vals \subseteq {"False"} THEN "False" ELSE "undef"
             ELSE IF "False" \in vals THEN "False"
                  ELSE IF vals \subseteq {"True"} THEN "True" ELSE "undef"

Called(name) == op = name /\ ret.raised = "no"

\* C1: the boolean check_models(A, S, zip(alpha, 1..k), {}) returns is the
\* truth value of the prefix alpha, nested in order with alpha[i] bound to
\* track i and ranging over S, applied to the verdict of the RunManager
\* search.
C1_CheckModelsDecidesPrefix ==
    Called("check_models") =>
        ret.value.accepted =
            QuantifiedValue(nfh, first_initial, nfh.alpha, Range(hw), <<>>)

C1_Witness ==
    /\ Called("check_models")
    /\ nfh.alpha = <<"E", "A">>
    /\ Len(hw) = 2
    /\ ret.value.accepted = "False"
    /\ QuantifiedValue(nfh, first_initial, <<"A", "E">>, Range(hw), <<>>) = "True"

\* C6: a result of checkMembership or check_models whose boolean is False
\* carries an empty witness list.
C6_FalseHasNoWitnesses ==
    (Called("checkMembership") \/ Called("check_models")) =>
        (ret.value.accepted = "False" => ret.value.managers = <<>>)

C6_Witness ==
    /\ Called("check_models")
    /\ nfh.alpha = <<"A">>
    /\ ret.value.accepted = "False"
    /\ Len(ret.value.built) = 2
    /\ Accept(nfh, first_initial, ret.value.built[1]) = "True"

RECURSIVE Power(_, _)
Power(b, e) == IF e = 0 THEN 1 ELSE b * Power(b, e - 1)

ForAllCount(alpha) == Cardinality({i \in 1..Len(alpha) : alpha[i] = "A"})

WitnessAssignments(managers) ==
    {managers[i].initial_assignment : i \in 1..Len(managers)}

C8_EmptyHyperword ==
    (op = "checkMembership" /\ hw = <<>> /\ nfh.k >= 1) =>
        /\ ret.raised = "no"
        /\ ret.value.managers = <<>>
        /\ ret.value.built = <<>>
        /\ nfh.alpha[1] = "E" => ret.value.accepted = "False"
        /\ nfh.alpha[1] = "A" => ret.value.accepted = "True"

C8_Witness ==
    /\ op = "checkMembership"
    /\ hw = <<>>
    /\ nfh.k = 2
    /\ nfh.alpha[1] = "A"
    /\ nfh.accepting_states = {"q1"}
    /\ nfh.delta = {}
    /\ ret.value.accepted = "True"

\* C9: on a singleton hyperword the shortcut of checkMembership gives what
\* the quantifier recursion check_models gives on the same automaton and
\* hyperword: the same boolean and as many witnesses, for the same
\* assignment.
AssignmentsOf(managers) ==
    [i \in 1..Len(managers) |-> managers[i].initial_assignment]

C9_SingletonShortcut ==
    (op = "checkMembership" /\ Len(hw) = 1) =>
        LET general == SimOutcome(check_models(nfh, first_initial, hw,
                                      Quantifiers(nfh), EmptyAssignment))
        IN  /\ ret.raised = general.raised
            /\ ret.value.accepted = general.value.accepted
            /\ Len(ret.value.managers) = Len(general.value.managers)
            /\ AssignmentsOf(ret.value.managers)
                 = AssignmentsOf(general.value.managers)

C9_Witness ==
    /\ Called("checkMembership")
    /\ Len(hw) = 1
    /\ nfh.alpha = <<"A", "E">>
    /\ ret.value.accepted = "True"
    /\ Len(ret.value.managers[1].run_history) = 2

\* --------------------------------- specification: RunManager construction
\* RunManager(nfh, assignment, initial_state).  The assignment argument is a
\* record [type, items]: the name of its Python type and, for the types that
\* have a length, its entries in order; initial_state is "None" when the
\* argument is left out.
SizedTypes == {"list", "dict", "tuple"}

AssignmentArgs ==
    [type : SizedTypes \cup {"NoneType"}, items : SeqsUpTo(HwWords, MaxArity + 1)]

InitialStateOf(fi, initial_state) ==
    IF initial_state = "None" THEN fi ELSE initial_state

RunManagerRaisesNoTypeCheck(n, fi, assignment, initial_state) ==
    IF InitialStateOf(fi, initial_state) \notin n.states THEN "AssertionError"
    ELSE IF assignment.type \notin SizedTypes THEN "TypeError"
    ELSE IF Len(assignment.items) # n.k THEN "AssertionError"
    ELSE "no"

\* The exception the constructor raises, "no" when it returns: the two
\* asserts in order (len() of an object without a length raises TypeError),
\* then the test of the assignment's type.
RunManagerRaises(n, fi, assignment, initial_state) ==
    IF InitialStateOf(fi, initial_state) \notin n.states THEN "AssertionError"
    ELSE IF assignment.type \notin SizedTypes THEN "TypeError"
    ELSE IF Len(assignment.items) # n.k THEN "AssertionError"
    ELSE IF assignment.type \notin {"list", "dict"} THEN "ValueError"
    ELSE "no"

RunManagerNew(n, fi, assignment, initial_state) ==
    IF assignment.type = "list"
    THEN RunManagerInit(n, assignment.items, InitialStateOf(fi, initial_state))
    ELSE RunManagerFromDict(n, assignment.items,
                            InitialStateOf(fi, initial_state))

InitRM ==
    /\ \E k \in 1..MaxArity :
        args \in {a \in [states : SUBSET StateNames,
                         initial_states : SUBSET StateNames,
                         accepting_states : SUBSET StateNames,
                         k : {k},
                         delta : {{}},
                         alpha : SeqsOfLen({"E", "A"}, k),
                         alphabet : {Chars}] :
                     NFHAsserts(a) /\ a.accepting_states = a.initial_states}
    /\ nfh \in {NFHInit(args, tm) : tm \in TransitionMaps(args)}
    /\ first_initial \in args.initial_states
    /\ arg \in [assignment : AssignmentArgs,
                initial_state : StateNames \cup {"None"}]
    /\ hw = <<>>
    /\ mgr = NoManager
    /\ child = NoManager
    /\ op = "args"
    /\ ret = Returns("None")
    /\ clock = 0
    /\ stack = <<>>
    /\ heap = <<>>

NewRunManager ==
    /\ op = "args"
    /\ RunManagerRaises(nfh, first_initial, arg.assignment, arg.initial_state) = "no"
    /\ mgr' = RunManagerNew(nfh, first_initial, arg.assignment, arg.initial_state)
    /\ op' = "RunManager"
    /\ ret' = Returns("RunManager")
    /\ UNCHANGED <<args, nfh, first_initial, hw, child, arg, clock, stack, heap>>

NewRunManagerRaises ==
    /\ op = "args"
    /\ RunManagerRaises(nfh, first_initial, arg.assignment, arg.initial_state) # "no"
    /\ mgr' = NoManager
    /\ op' = "RunManager"
    /\ ret' = Raises(RunManagerRaises(nfh, first_initial, arg.assignment,
                                      arg.initial_state))
    /\ UNCHANGED <<args, nfh, first_initial, hw, child, arg, clock, stack, heap>>

NextRM == NewRunManager \/ NewRunManagerRaises

SpecRM == InitRM /\ [][NextRM]_vars

\* ------------------------------------------ claims on RunManager construction
BadInitialState == InitialStateOf(first_initial, arg.initial_state) \notin nfh.states
HasLength == arg.assignment.type \in SizedTypes
WrongLength == HasLength /\ Len(arg.assignment.items) # nfh.k
NotListNorDict == arg.assignment.type \notin {"list", "dict"}

\* C20 as stated: construction fails with AssertionError when initial_state
\* is not a state of the NFH, with AssertionError when the assignment has not
\* exactly k entries, and with ValueError when the assignment is neither a
\* list nor a dict.
C20_AsStated ==
    op = "RunManager" =>
        /\ BadInitialState => (ret.raised = "AssertionError" /\ mgr = NoManager)
        /\ WrongLength => (ret.raised = "AssertionError" /\ mgr = NoManager)
        /\ NotListNorDict => (ret.raised = "ValueError" /\ mgr = NoManager)

\* C20: construction fails, and no manager is obtained, in each of the three
\* cases; the exception is AssertionError when initial_state is not a state
\* of the NFH, otherwise TypeError when the assignment has no length,
\* otherwise AssertionError when it has not exactly k entries, otherwise
\* ValueError when it is neither a list nor a dict; in no other case does
\* construction fail.
C20_ConstructionFailures ==
    op = "RunManager" =>
        /\ (BadInitialState \/ WrongLength \/ NotListNorDict)
               <=> (ret.raised # "no" /\ mgr = NoManager)
        /\ ret.raised # "no" =>
               ret.raised = (IF BadInitialState THEN "AssertionError"
                             ELSE IF ~HasLength THEN "TypeError"
                             ELSE IF WrongLength THEN "AssertionError"
                             ELSE "ValueError")
        /\ ret.raised = "no" => (ret = Returns("RunManager") /\ mgr # NoManager)

C20_Witness ==
    /\ op = "RunManager"
    /\ ret.raised = "ValueError"
    /\ arg.assignment.type = "tuple"
    /\ Len(arg.assignment.items) = nfh.k
    /\ nfh.k = MaxArity

\* ------------------------- specification: checkMembership on binary relations
\* The automata of the alternation scenario and their neighbours: two tracks,
\* q0 initial, q1 accepting, every transition from q0 to q1 on a pair of
\* characters, so that the automaton accepts (x, y) exactly when delta holds
\* the pair.
PairSteps == {<<"q0", <<c, d>>, "q1">> : c \in Chars, d \in Chars}

InitAlt ==
    /\ args \in {a \in [states : {{"q0", "q1"}},
                        initial_states : {{"q0"}},
                        accepting_states : {{"q1"}},
                        k : {2},
                        delta : SUBSET PairSteps,
                        alpha : SeqsOfLen({"E", "A"}, 2),
                        alphabet : {Chars}] : NFHAsserts(a)}
    /\ nfh \in {NFHInit(args, [s \in args.states |->
                                  IF s = "q0" THEN from_q0 ELSE <<>>]) :
                    from_q0 \in Perms(args.delta)}
    /\ first_initial \in args.initial_states
    /\ hw \in Hyperwords
    /\ mgr = NoManager
    /\ child = NoManager
    /\ op = "args"
    /\ arg = "None"
    /\ ret = Returns("None")
    /\ clock = 0
    /\ stack = <<>>
    /\ heap = <<>>

SpecAlt == InitAlt /\ [][NextCM]_vars

\* ------------------------------------------------ claims on the alternation
Step(c, d) == <<"q0", <<c, d>>, "q1">>
DeltaFull == {Step("a", "a"), Step("a", "b"), Step("b", "a")}
DeltaBroken == {Step("a", "a"), Step("b", "a")}
OnAB == Range(hw) = {<<"a">>, <<"b">>} /\ Len(hw) = Cardinality(Range(hw))

\* C17: over the hyperword {a, b}, with states {q0, q1}, q0 initial, q1
\* accepting and k = 2, checkMembership returns True for alpha = [A, E] and
\* for alpha = [E, A] when delta = {(q0,(a,a),q1), (q0,(a,b),q1),
\* (q0,(b,a),q1)}; without (q0,(a,b),q1) it returns True for [A, E] and False
\* for [E, A].
C17_AlternationDoesNotCommute ==
    (op = "checkMembership" /\ OnAB) =>
        /\ (args.delta = DeltaFull /\ args.alpha \in {<<"A", "E">>, <<"E", "A">>})
               => (ret.raised = "no" /\ ret.value.accepted = "True")
        /\ (args.delta = DeltaBroken /\ args.alpha = <<"A", "E">>)
               => (ret.raised = "no" /\ ret.value.accepted = "True")
        /\ (args.delta = DeltaBroken /\ args.alpha = <<"E", "A">>)
               => (ret.raised = "no" /\ ret.value.accepted = "False")

C17_Witness ==
    /\ op = "checkMembership"
    /\ OnAB
    /\ args.delta = DeltaBroken
    /\ args.alpha = <<"E", "A">>
    /\ ret = Returns([accepted |-> "False", managers |-> <<>>,
                      built |-> ret.value.built])
    /\ Len(ret.value.built) = 4

\* ------------------- specification: RunManager on the concatenation automaton
\* The three-track automaton of test_concatenation_k3: q_x reads a character
\* of x and of z, q_x moves to q_y and q_y stays on a character of y and of
\* z, and q_y moves to the accepting q_acc on three idle symbols.
ConcatDelta ==
    {<<"q_x", <<c, Idle, c>>, "q_x">> : c \in Chars}
    \cup {<<"q_x", <<Idle, c, c>>, "q_y">> : c \in Chars}
    \cup {<<"q_y", <<Idle, c, c>>, "q_y">> : c \in Chars}
    \cup {<<"q_y", <<Idle, Idle, Idle>>, "q_acc">>}

ConcatArgs ==
    [states |-> {"q_x", "q_y", "q_acc", "q_rej"},
     initial_states |-> {"q_x"},
     accepting_states |-> {"q_acc"},
     k |-> 3,
     delta |-> ConcatDelta,
     alpha |-> <<"E", "E", "E">>,
     alphabet |-> Chars \cup {Idle}]

ConcatMaps ==
    {[s \in ConcatArgs.states |->
        IF s = "q_x" THEN from_x ELSE IF s = "q_y" THEN from_y ELSE <<>>] :
            from_x \in Perms({t \in ConcatDelta : t[1] = "q_x"}),
            from_y \in Perms({t \in ConcatDelta : t[1] = "q_y"})}

InitConcat ==
    /\ args \in {a \in {ConcatArgs} : NFHAsserts(a)}
    /\ nfh \in {NFHInit(args, tm) : tm \in ConcatMaps}
    /\ first_initial \in args.initial_states
    /\ \E x \in SeqsUpTo(Chars, MaxHwLen), y \in SeqsUpTo(Chars, MaxHwLen),
          z \in SeqsUpTo(Chars, MaxLen) :
            mgr = RunManagerInit(nfh, <<x, y, z>>, first_initial)
    /\ hw = <<>>
    /\ child = NoManager
    /\ op = "RunManager"
    /\ arg = "None"
    /\ ret = Returns("None")
    /\ clock = 0
    /\ stack = <<>>
    /\ heap = <<>>

SpecConcat == InitConcat /\ [][Next]_vars

\* --------------------------------------------- claims on the concatenation
WordX == mgr.initial_assignment[1]
WordY == mgr.initial_assignment[2]
WordZ == mgr.initial_assignment[3]

\* run() called on the manager as the constructor left it.
FreshRun == op = "RunManager" /\ op' = "run"

Required == <<"k", "alpha", "states", "initial", "accepting", "alphabet">>

Alias(req) ==
    IF req = "initial" THEN "initial states"
    ELSE IF req = "accepting" THEN "accepting states"
    ELSE IF req = "alpha" THEN "quantifiers"
    ELSE "none"

Skipped(line) == line.kind \in {"blank", "comment"}

\* The loop over the lines: st is [data, section, delta_lines].
RECURSIVE ReadLines(_, _)
ReadLines(lines, st) ==
    IF lines = <<>> THEN st
    ELSE LET line == Head(lines)
         IN  IF Skipped(line) THEN ReadLines(Tail(lines), st)
             ELSE IF line.colon /\ st.section # "delta"
             THEN IF line.key = "delta"
                  THEN ReadLines(Tail(lines), [st EXCEPT !.section = "delta"])
                  ELSE ReadLines(Tail(lines),
                         [st EXCEPT !.data =
                             [x \in (DOMAIN st.data) \cup {line.key} |->
                                 IF x = line.key THEN line.value ELSE st.data[x]]])
             ELSE IF st.section = "delta"
             THEN ReadLines(Tail(lines),
                            [st EXCEPT !.delta_lines = Append(@, line.fields)])
             ELSE ReadLines(Tail(lines), st)

NoData == [x \in {} |-> <<>>]

Read(text) ==
    ReadLines(text, [data |-> NoData, section |-> "None", delta_lines |-> <<>>])

Missing(data, req) ==
    req \notin DOMAIN data /\ Alias(req) \notin DOMAIN data

Field(data, req) == IF req \in DOMAIN data THEN data[req] ELSE data[Alias(req)]

\* int(): the texts int() accepts and their values.
IntLiterals == [lit \in {"-1", "0", "1", "2"} |->
                   IF lit = "-1" THEN -1 ELSE IF lit = "0" THEN 0
                   ELSE IF lit = "1" THEN 1 ELSE 2]

IsInt(value) == Len(value) = 1 /\ value[1] \in DOMAIN IntLiterals

IntOf(value) == IntLiterals[value[1]]

BadPartsTooFew(parts, k) == Len(parts) < k + 2

BadParts(parts, k) == Len(parts) # k + 2

TransitionOf(parts) ==
    <<parts[1], SubSeq(parts, 2, Len(parts) - 1), parts[Len(parts)]>>

\* What parse_nfh_from_text does up to the call of NFH(...): the exception it
\* raises, or "no" and the arguments it passes to the constructor.
ParseArgs(text) ==
    LET st == Read(text)
        data == st.data
    IN  IF \E i \in 1..Len(Required) : Missing(data, Required[i])
        THEN [raised |-> "ValueError"]
        ELSE IF ~IsInt(Field(data, "k")) THEN [raised |-> "ValueError"]
        ELSE LET k == IntOf(Field(data, "k"))
             IN  IF \E i \in 1..Len(st.delta_lines) : BadParts(st.delta_lines[i], k)
                 THEN [raised |-> "ValueError"]
                 ELSE [raised |-> "no",
                       a |-> [states |-> Range(Field(data, "states")),
                              initial_states |-> Range(Field(data, "initial")),
                              accepting_states |-> Range(Field(data, "accepting")),
                              k |-> k,
                              delta |-> {TransitionOf(st.delta_lines[i]) :
                                            i \in 1..Len(st.delta_lines)},
                              alpha |-> Field(data, "alpha"),
                              alphabet |-> Range(Field(data, "alphabet"))]]

\* ------------------------------------ specification: parse_nfh_from_text
MaxDeltaLines == 2

KeyTokens(key) ==
    IF key = "initial states" THEN <<"initial", "states:">>
    ELSE IF key = "accepting states" THEN <<"accepting", "states:">>
    ELSE <<key \o ":">>

KeyLine(key, value) ==
    [kind |-> "text", colon |-> TRUE, key |-> key, value |-> value,
     fields |-> KeyTokens(key) \o value]

PlainLine(fields) ==
    [kind |-> "text", colon |-> FALSE, key |-> "none", value |-> <<>>,
     fields |-> fields]

CommentLine ==
    [kind |-> "comment", colon |-> FALSE, key |-> "none", value |-> <<>>,
     fields |-> <<"#">>]

\* The texts: each required key given by its name, by its alias or not at
\* all, then possibly the "delta:" line, then at most MaxDeltaLines lines.
HeaderForms ==
    {f \in [1..Len(Required) -> {"key", "alias", "absent"}] :
        \A i \in 1..Len(Required) :
            f[i] = "alias" => Alias(Required[i]) # "none"}

KValues == {<<"-1">>, <<"1">>, <<"2">>, <<"x">>}

ValueFor(req, kval) ==
    IF req = "k" THEN kval
    ELSE IF req = "alpha"
    THEN (IF kval = <<"2">> THEN <<"E", "E">> ELSE <<"E">>)
    ELSE IF req = "alphabet" THEN <<"a">>
    ELSE <<"q0">>

RECURSIVE HeaderLines(_, _, _)
HeaderLines(f, kval, i) ==
    IF i > Len(Required) THEN <<>>
    ELSE (IF f[i] = "key"
          THEN <<KeyLine(Required[i], ValueFor(Required[i], kval))>>
          ELSE IF f[i] = "alias"
          THEN <<KeyLine(Alias(Required[i]), ValueFor(Required[i], kval))>>
          ELSE <<>>)
         \o HeaderLines(f, kval, i + 1)

BodyLines ==
    {PlainLine(<<"q0">>), PlainLine(<<"q0", "a", "q0">>),
     PlainLine(<<"q0", "a", "a", "q0">>), CommentLine,
     KeyLine("alphabet", <<"a">>)}

Texts ==
    {HeaderLines(f, kval, 1) \o header \o body :
        f \in HeaderForms, kval \in KValues,
        header \in {<<>>, <<KeyLine("delta", <<>>)>>},
        body \in SeqsUpTo(BodyLines, MaxDeltaLines)}

NoArgs == [none |-> TRUE]

InitParse ==
    /\ arg \in Texts
    /\ args = NoArgs
    /\ nfh = NoNFH
    /\ first_initial = "none"
    /\ hw = <<>>
    /\ mgr = NoManager
    /\ child = NoManager
    /\ op = "args"
    /\ ret = Returns("None")
    /\ clock = 0
    /\ stack = <<>>
    /\ heap = <<>>

ParseReturns ==
    /\ op = "args"
    /\ ParseArgs(arg).raised = "no"
    /\ NFHAsserts(ParseArgs(arg).a)
    /\ args' = ParseArgs(arg).a
    /\ \E tm \in TransitionMaps(ParseArgs(arg).a) :
            nfh' = NFHInit(ParseArgs(arg).a, tm)
    /\ op' = "parse_nfh_from_text"
    /\ ret' = Returns("NFH")
    /\ UNCHANGED <<first_initial, hw, mgr, child, arg, clock, stack, heap>>

ParseRaises ==
    /\ op = "args"
    /\ ParseArgs(arg).raised # "no"
    /\ op' = "parse_nfh_from_text"
    /\ ret' = Raises(ParseArgs(arg).raised)
    /\ UNCHANGED <<args, nfh, first_initial, hw, mgr, child, arg, clock, stack, heap>>

ParseConstructRaises ==
    /\ op = "args"
    /\ ParseArgs(arg).raised = "no"
    /\ ~NFHAsserts(ParseArgs(arg).a)
    /\ args' = ParseArgs(arg).a
    /\ op' = "parse_nfh_from_text"
    /\ ret' = Raises("AssertionError")
    /\ UNCHANGED <<nfh, first_initial, hw, mgr, child, arg, clock, stack, heap>>

NextParse == ParseReturns \/ ParseRaises \/ ParseConstructRaises

SpecParse == InitParse /\ [][NextParse]_vars

\* -------------------------------------------------- claims on the parser
\* Stated over the text: the first "delta:" line, the keys given before it
\* (a ':' line after it belongs to the delta section), the value of k.
IsKeyLine(line) == ~Skipped(line) /\ line.colon

FirstDelta(text) ==
    IF \E i \in 1..Len(text) : IsKeyLine(text[i]) /\ text[i].key = "delta"
    THEN CHOOSE i \in 1..Len(text) :
            /\ IsKeyLine(text[i]) /\ text[i].key = "delta"
            /\ \A j \in 1..(i - 1) : ~(IsKeyLine(text[j]) /\ text[j].key = "delta")
    ELSE Len(text) + 1

GivenKeys(text) ==
    {text[i].key : i \in {j \in 1..(FirstDelta(text) - 1) : IsKeyLine(text[j])}}

RequiredMissing(text) ==
    \E i \in 1..Len(Required) :
        Required[i] \notin GivenKeys(text) /\ Alias(Required[i]) \notin GivenKeys(text)

\* k as the text gives it: the value of its last k line.
GivenK(text) ==
    LET ks == {j \in 1..(FirstDelta(text) - 1) :
                  IsKeyLine(text[j]) /\ text[j].key = "k"}
        last == CHOOSE j \in ks : \A i \in ks : i <= j
    IN  text[last].value

BadDeltaLine(text) ==
    /\ "k" \in GivenKeys(text)
    /\ IsInt(GivenK(text))
    /\ \E i \in (FirstDelta(text) + 1)..Len(text) :
        ~Skipped(text[i]) /\ Len(text[i].fields) # IntOf(GivenK(text)) + 2

\* C19: parse_nfh_from_text raises (ValueError) and returns no NFH whenever
\* a required key is given neither by its name nor by its alias, or a line
\* of the delta section (blank and comment lines aside) has not exactly k + 2
\* blank/comma separated fields; nothing catches the exception.
C19_ParseErrors ==
    (op = "parse_nfh_from_text" /\ (RequiredMissing(arg) \/ BadDeltaLine(arg)))
        => (ret.raised = "ValueError" /\ nfh = NoNFH)

C19_Witness ==
    /\ op = "parse_nfh_from_text"
    /\ ~RequiredMissing(arg)
    /\ BadDeltaLine(arg)
    /\ GivenK(arg) = <<"2">>
    /\ arg[Len(arg)] = PlainLine(<<"q0", "a", "q0">>)
    /\ ret.raised = "ValueError"

\* ------------------------------ the search with a timeout (run_manager_old.py)
\* Time is counted in whole units of the default timeout: the clock is an
\* integer, and a timeout is a number of units (negative, zero or positive).
DefaultTimeoutSeconds == 60
ClockUnit == DefaultTimeoutSeconds
DefaultTimeout == DefaultTimeoutSeconds \div ClockUnit

MaxClock == 2
MaxTimeout == 1
RecursionLimit == 3

\* The longest run_history kept exactly.  A manager that makes more moves
\* than it has configurations is inside a loop it never leaves; of such a
\* history only the first HistoryCap transitions are recorded.
HistoryCap == Cardinality(StateNames) * (MaxLen + 1)

\* A manager of run_manager_old.py: the record of run_manager.py with the
\* timeout, enable_timeout and start_time attributes, and cut, which records
\* that a deadline check stopped this search or a search below it.
RunManagerOld(n, variables, initial_state, initial_assignment, timeout, enable_timeout) ==
    [current_state |-> initial_state,
     variables |-> variables,
     run_history |-> <<>>,
     initial_assignment |-> initial_assignment,
     timeout |-> timeout,
     enable_timeout |-> enable_timeout,
     start_time |-> 0,
     cut |-> FALSE]

moveOld(m, t) ==
    IF Len(m.run_history) < HistoryCap THEN move(m, t)
    ELSE [move(m, t) EXCEPT !.run_history = m.run_history]

ExpiredAtDeadline(m, now) == m.enable_timeout /\ now - m.start_time >= m.timeout

ExpiredWhateverFlag(m, now) == now - m.start_time > m.timeout

\* The two deadline tests of run(): the loop condition is the negation of
\* the test made before each branch.
Expired(m, now) == m.enable_timeout /\ now - m.start_time > m.timeout

remaining_timeout(m, now) ==
    IF m.enable_timeout THEN m.timeout - (now - m.start_time) ELSE m.timeout

branchOld(n, m, t, now) ==
    moveOld(RunManagerOld(n, m.variables, m.current_state, NoAssignment,
                          remaining_timeout(m, now), m.enable_timeout), t)

\* ---- the call stack
\* A frame of run() is [fn |-> "run", pc, m, todo]: pc is "enter" before
\* start_time is set, "while" at the loop condition, "for" at the test before
\* a branch, "branch" at the call of branch() and "wait" while the branch
\* runs; todo lists the valid transitions not tried yet.
RunFrame(m) == [fn |-> "run", pc |-> "enter", m |-> m, todo |-> <<>>]

\* A frame of check_models is [fn |-> "check_models", pc, quantifiers,
\* assignment, i, all_managers, cut]: i is the position in the hyperword;
\* with no quantifier left it waits for the run() of the manager it built.
ModelsFrame(quantifiers, assignment) ==
    [fn |-> "check_models", pc |-> "call", quantifiers |-> quantifiers,
     assignment |-> assignment, i |-> 1, all_managers |-> <<>>, cut |-> FALSE]

\* checkMembership waiting for the run() of the singleton shortcut or for
\* check_models.
MembershipFrame == [fn |-> "checkMembership", pc |-> "call", cut |-> FALSE]

Top == stack[Len(stack)]
Below == SubSeq(stack, 1, Len(stack) - 1)
SetTop(f) == [stack EXCEPT ![Len(stack)] = f]
InRun(pc) == stack # <<>> /\ Top.fn = "run" /\ Top.pc = pc

\* ---- returning.  A return pops the frame and resumes the caller, which may
\* return in turn; no clock is read on the way.  The result is the stack left
\* and, when the outermost call returned, its value in done.
NotDone == [none |-> TRUE]

ModelsValue(res, managers, cut) ==
    [fn |-> "check_models", res |-> res, managers |-> managers, cut |-> cut]

LeafValueKeepsManager(res, m) == ModelsValue(res, <<m>>, m.cut)

\* "if manager.run(): return True, [manager]" and "return False, []"
LeafValue(res, m) == ModelsValue(res, IF res THEN <<m>> ELSE <<>>, m.cut)

RECURSIVE ReturnModels(_, _, _)
ReturnModels(stk, S, v) ==
    IF stk = <<>> THEN [stack |-> <<>>, done |-> v]
    ELSE LET caller == stk[Len(stk)]
             rest == SubSeq(stk, 1, Len(stk) - 1)
             cut == caller.cut \/ v.cut
         IN  IF caller.fn = "checkMembership"
             THEN ReturnModels(rest, S, ModelsValue(v.res, v.managers, cut))
             ELSE IF caller.quantifiers[1][1] = "E"
             THEN IF v.res
                  THEN ReturnModels(rest, S, ModelsValue(TRUE, v.managers, cut))
                  ELSE IF caller.i = Len(S)
                  THEN ReturnModels(rest, S, ModelsValue(FALSE, <<>>, cut))
                  ELSE [stack |-> Append(rest,
                            [caller EXCEPT !.i = @ + 1, !.pc = "call", !.cut = cut]),
                        done |-> NotDone]
             ELSE IF ~v.res
                  THEN ReturnModels(rest, S, ModelsValue(FALSE, <<>>, cut))
                  ELSE IF caller.i = Len(S)
                  THEN ReturnModels(rest, S,
                           ModelsValue(TRUE, caller.all_managers \o v.managers, cut))
                  ELSE [stack |-> Append(rest,
                            [caller EXCEPT !.i = @ + 1, !.pc = "call", !.cut = cut,
                                           !.all_managers = @ \o v.managers]),
                        done |-> NotDone]

RECURSIVE ReturnRun(_, _, _, _)

ReturnRunNoBacktrack(stk, S, res, m) ==
    IF stk = <<>> THEN [stack |-> <<>>, done |-> [fn |-> "run", res |-> res, m |-> m]]
    ELSE LET caller == stk[Len(stk)]
             rest == SubSeq(stk, 1, Len(stk) - 1)
         IN  IF caller.fn # "run"
             THEN ReturnModels(rest, S, LeafValue(res, m))
             ELSE IF res
             THEN ReturnRun(rest, S, TRUE,
                      [caller.m EXCEPT !.run_history = @ \o m.run_history])
             ELSE ReturnRun(rest, S, FALSE, [caller.m EXCEPT !.cut = @ \/ m.cut])

ReturnRun(stk, S, res, m) ==
    IF stk = <<>> THEN [stack |-> <<>>, done |-> [fn |-> "run", res |-> res, m |-> m]]
    ELSE LET caller == stk[Len(stk)]
             rest == SubSeq(stk, 1, Len(stk) - 1)
         IN  IF caller.fn # "run"
             THEN ReturnModels(rest, S, LeafValue(res, m))
             ELSE IF res
             THEN ReturnRun(rest, S, TRUE,
                      [caller.m EXCEPT !.run_history = @ \o m.run_history])
             ELSE [stack |-> Append(rest,
                       [caller EXCEPT !.pc = "for", !.todo = Tail(@),
                                      !.m.cut = @ \/ m.cut]),
                   done |-> NotDone]

\* The value the outermost call left in ret.  It is kept in one shape,
\* [accepted, managers, cut]: checkMembership returns the pair (accepted,
\* managers); run() returns the bool alone, kept in accepted with no managers;
\* cut tells whether a deadline check stopped a search of the call.
Verdict(accepted, managers, cut) ==
    [accepted |-> accepted, managers |-> managers, cut |-> cut]

NoVerdict == Verdict("None", <<>>, FALSE)

Outcome(r) ==
    IF r.done = NotDone THEN ret
    ELSE IF r.done.fn = "run"
    THEN Returns(Verdict(IF r.done.res THEN "True" ELSE "False", <<>>, r.done.m.cut))
    ELSE Returns(Verdict(IF r.done.res THEN "True" ELSE "False",
                         r.done.managers, r.done.cut))

\* run() of the top frame returns res.
Return(res, m) ==
    LET r == ReturnRun(Below, hw, res, m)
    IN  /\ stack' = r.stack
        /\ ret' = Outcome(r)
        /\ op' = IF r.done = NotDone THEN op
                 ELSE IF r.done.fn = "run" THEN "run" ELSE "checkMembership"
        /\ mgr' = IF r.done # NotDone /\ r.done.fn = "run" THEN r.done.m ELSE mgr

\* --------------------------------- specification: the search with a timeout
\* One track over the alphabet {a}: every automaton NFH.__init__ accepts
\* with at most MaxDelta transitions, run() called on it with each timeout
\* and flag, or checkMembership called on it with the manager's defaults.
TimedTransitions ==
    {<<s, <<c>>, t>> : s \in StateNames, c \in CtorSymbols, t \in StateNames}

TimedArgs ==
    {a \in [states : {StateNames},
            initial_states : {{"q0"}},
            accepting_states : SUBSET StateNames,
            k : {1},
            delta : SubsetsUpTo(TimedTransitions, MaxDelta),
            alpha : SeqsOfLen({"E", "A"}, 1),
            alphabet : {{"a"}}] : NFHAsserts(a)}

TimedWords == SeqsUpTo({"a"}, MaxLen)

TimedHyperwords == UNION {Perms(X) : X \in SubsetsUpTo(TimedWords, MaxWords)}

TimeoutArgs == (-1)..MaxTimeout

InitT ==
    /\ args \in TimedArgs
    /\ nfh \in {NFHInit(args, tm) : tm \in TransitionMaps(args)}
    /\ first_initial \in args.initial_states
    /\ \/ /\ args.alpha = <<"E">>
          /\ arg \in [call : {"run"}, timeout : TimeoutArgs,
                      enable_timeout : BOOLEAN]
          /\ hw = <<>>
          /\ \E w \in TimedWords :
                mgr = RunManagerOld(nfh, <<w>>, first_initial, <<w>>,
                                    arg.timeout, arg.enable_timeout)
          /\ stack = <<RunFrame(mgr)>>
          /\ op = "RunManager"
       \/ /\ arg = [call |-> "checkMembership", timeout |-> DefaultTimeout,
                    enable_timeout |-> TRUE]
          /\ hw \in TimedHyperwords
          /\ mgr = NoManager
          /\ stack = <<MembershipFrame>>
          /\ op = "args"
    /\ child = NoManager
    /\ ret = Returns(NoVerdict)
    /\ clock = 0
    /\ heap = <<>>

Untouched == UNCHANGED <<args, nfh, first_initial, hw, child, arg, clock, heap>>

Resume(f) ==
    /\ stack' = SetTop(f)
    /\ UNCHANGED <<mgr, op, ret>>
    /\ Untouched

Call(f, callee) ==
    /\ stack' = Append(SetTop(f), callee)
    /\ UNCHANGED <<mgr, op, ret>>
    /\ Untouched

\* time passes: while the clock is below MaxClock, and as long as a search on
\* the stack has its deadline ahead
Tick ==
    /\ stack # <<>>
    /\ \/ clock < MaxClock
       \/ \E i \in 1..Len(stack) :
            /\ stack[i].fn = "run"
            /\ stack[i].pc # "enter"
            /\ stack[i].m.enable_timeout
            /\ ~Expired(stack[i].m, clock)
    /\ clock' = clock + 1
    /\ UNCHANGED <<args, nfh, first_initial, hw, mgr, child, op, arg, ret, stack, heap>>

RunEnter ==
    /\ InRun("enter")
    /\ Resume([Top EXCEPT !.pc = "while", !.m.start_time = clock])

RunTimeout ==
    /\ InRun("while")
    /\ Expired(Top.m, clock)
    /\ Return(FALSE, [Top.m EXCEPT !.cut = TRUE])
    /\ Untouched

RunAccept ==
    /\ InRun("while")
    /\ ~Expired(Top.m, clock)
    /\ acceptingState(nfh, Top.m)
    /\ Return(TRUE, Top.m)
    /\ Untouched

RunDeadEnd ==
    /\ InRun("while")
    /\ ~Expired(Top.m, clock)
    /\ ~acceptingState(nfh, Top.m)
    /\ Len(valid_transitions(nfh, Top.m)) = 0
    /\ Return(FALSE, Top.m)
    /\ Untouched

RunMove ==
    /\ InRun("while")
    /\ ~Expired(Top.m, clock)
    /\ ~acceptingState(nfh, Top.m)
    /\ Len(valid_transitions(nfh, Top.m)) = 1
    /\ Resume([Top EXCEPT !.m = moveOld(@, valid_transitions(nfh, Top.m)[1])])

RunBranching ==
    /\ InRun("while")
    /\ ~Expired(Top.m, clock)
    /\ ~acceptingState(nfh, Top.m)
    /\ Len(valid_transitions(nfh, Top.m)) > 1
    /\ Resume([Top EXCEPT !.pc = "for", !.todo = valid_transitions(nfh, Top.m)])

RunForDone ==
    /\ InRun("for")
    /\ Top.todo = <<>>
    /\ Return(FALSE, Top.m)
    /\ Untouched

RunForTimeout ==
    /\ InRun("for")
    /\ Top.todo # <<>>
    /\ Expired(Top.m, clock)
    /\ Return(FALSE, [Top.m EXCEPT !.cut = TRUE])
    /\ Untouched

RunForBranch ==
    /\ InRun("for")
    /\ Top.todo # <<>>
    /\ ~Expired(Top.m, clock)
    /\ Resume([Top EXCEPT !.pc = "branch"])

RunBranch ==
    /\ InRun("branch")
    /\ Len(stack) < RecursionLimit
    /\ Call([Top EXCEPT !.pc = "wait"],
            RunFrame(branchOld(nfh, Top.m, Head(Top.todo), clock)))

\* the interpreter's stack is full: the call raises RecursionError, which
\* this run() catches
RunRecursionError ==
    /\ InRun("branch")
    /\ Len(stack) >= RecursionLimit
    /\ Return(FALSE, Top.m)
    /\ Untouched

\* RunManager(A, assignment): the timeout and the flag take their defaults.
RunManagerOldDefault(n, fi, assignment) ==
    RunManagerOld(n, assignment, fi, assignment, DefaultTimeout, TRUE)

ReturnFromModels(v) ==
    LET r == ReturnModels(Below, hw, v)
    IN  /\ stack' = r.stack
        /\ ret' = Outcome(r)
        /\ op' = IF r.done = NotDone THEN op ELSE "checkMembership"
        /\ mgr' = mgr

InModels == stack # <<>> /\ Top.fn = "check_models" /\ Top.pc = "call"

MembershipSingleton ==
    /\ stack # <<>> /\ Top.fn = "checkMembership" /\ Top.pc = "call"
    /\ Len(hw) = 1
    /\ Call([Top EXCEPT !.pc = "wait"],
            RunFrame(RunManagerOldDefault(nfh, first_initial,
                                          [i \in 1..nfh.k |-> hw[1]])))

MembershipModels ==
    /\ stack # <<>> /\ Top.fn = "checkMembership" /\ Top.pc = "call"
    /\ Len(hw) # 1
    /\ Call([Top EXCEPT !.pc = "wait"],
            ModelsFrame(Quantifiers(nfh), EmptyAssignment))

ModelsLeaf ==
    /\ InModels
    /\ Top.quantifiers = <<>>
    /\ Call([Top EXCEPT !.pc = "wait"],
            RunFrame(RunManagerOldDefault(nfh, first_initial,
                                          [i \in 1..nfh.k |-> Top.assignment[i]])))

ModelsEmpty ==
    /\ InModels
    /\ Top.quantifiers # <<>>
    /\ Len(hw) = 0
    /\ ReturnFromModels(ModelsValue(Top.quantifiers[1][1] = "A", <<>>, FALSE))
    /\ Untouched

ModelsWord ==
    /\ InModels
    /\ Top.quantifiers # <<>>
    /\ Len(hw) # 0
    /\ Call([Top EXCEPT !.pc = "wait"],
            ModelsFrame(Tail(Top.quantifiers),
                        Extend(Top.assignment, Top.quantifiers[1][2], hw[Top.i])))

StepT ==
    \/ RunEnter \/ RunTimeout \/ RunAccept \/ RunDeadEnd \/ RunMove
    \/ RunBranching \/ RunForDone \/ RunForTimeout \/ RunForBranch
    \/ RunBranch \/ RunRecursionError
    \/ MembershipSingleton \/ MembershipModels
    \/ ModelsLeaf \/ ModelsEmpty \/ ModelsWord

NextT == Tick \/ StepT

SpecT == InitT /\ [][NextT]_vars

\* The interpreter keeps executing and the clock keeps advancing.
SpecTFair == SpecT /\ WF_vars(StepT) /\ WF_vars(Tick)

\* ------------------------------------------------- claims on the timeout
DirectRun == arg.call = "run"
RunReturned == DirectRun /\ op = "run"

\* the only transition is an idle self-loop on the state the search starts
\* in, and that state is not accepting
IdleLoopOnly ==
    /\ args.delta = {<<first_initial, <<Idle>>, first_initial>>}
    /\ first_initial \notin args.accepting_states

\* C14: with the timeout enabled every run() returns in the end, whatever
\* cycles delta has; when the only transition is an idle self-loop on the
\* non-accepting start state it returns False, and only after more than the
\* timeout has elapsed since it started.
C14_TimeoutEndsEverySearch ==
    /\ (DirectRun /\ arg.enable_timeout) ~> RunReturned
    /\ [](IF RunReturned /\ arg.enable_timeout /\ IdleLoopOnly
          THEN ret.value.accepted = "False" /\ clock - mgr.start_time > mgr.timeout
          ELSE TRUE)

C14_Witness ==
    /\ RunReturned
    /\ arg.enable_timeout
    /\ IdleLoopOnly
    /\ arg.timeout = MaxTimeout
    /\ ret.value.accepted = "False"
    /\ Len(mgr.run_history) > 1

MembershipReturned == arg.call = "checkMembership" /\ op = "checkMembership"

\* every word of the hyperword, alone on the track, has an accepting run
EveryWordAccepted ==
    \A i \in 1..Len(hw) : AcceptingRunExists(nfh, <<first_initial, <<hw[i]>>>>)

\* C15: a run() stopped by its deadline returns False, the value a rejection
\* returns; checkMembership under ForAll returns (False, []) whenever a
\* deadline stopped one of its searches, even if every assignment has an
\* accepting run; the verdict is always True or False, never a third value.
C15_TimeoutIsPlainFalse ==
    /\ (RunReturned \/ MembershipReturned) =>
            ret.value.accepted \in {"True", "False"}
    /\ (RunReturned /\ mgr.cut) =>
            (ret.value.accepted = "False" /\ ret.value.managers = <<>>)
    /\ (MembershipReturned /\ args.alpha = <<"A">> /\ ret.value.cut) =>
            (ret.value.accepted = "False" /\ ret.value.managers = <<>>)

C15_Witness ==
    /\ MembershipReturned
    /\ args.alpha = <<"A">>
    /\ Len(hw) = 2
    /\ EveryWordAccepted
    /\ ret.value = Verdict("False", <<>>, TRUE)

\* ---- run() with the timeout disabled, as a function of the manager alone.
\* Neither deadline test can succeed, so no clock value enters: a frame makes
\* its deterministic moves, then accepts, meets a dead end or tries its
\* branches in order.  A configuration that comes back inside one frame's
\* loop means the loop never ends ("hang"); depth is the number of frames on
\* the stack, and the frame that cannot call raises and catches
\* RecursionError.
RECURSIVE UntimedRun(_, _, _, _)
RECURSIVE UntimedBranches(_, _, _, _)

UntimedBranches(n, m, vt, depth) ==
    IF vt = <<>> THEN [res |-> "False", m |-> m]
    ELSE IF depth >= RecursionLimit THEN [res |-> "False", m |-> m]
    ELSE LET b == UntimedRun(n, branchOld(n, m, Head(vt), 0), depth + 1, {})
         IN  IF b.res = "True"
             THEN [res |-> "True",
                   m |-> [m EXCEPT !.run_history = @ \o b.m.run_history]]
             ELSE IF b.res = "False"
             THEN UntimedBranches(n, m, Tail(vt), depth)
             ELSE [res |-> "hang", m |-> m]

UntimedRun(n, m, depth, seen) ==
    IF acceptingState(n, m) THEN [res |-> "True", m |-> m]
    ELSE LET vt == valid_transitions(n, m)
         IN  IF Len(vt) = 0 THEN [res |-> "False", m |-> m]
             ELSE IF Len(vt) > 1 THEN UntimedBranches(n, m, vt, depth)
             ELSE IF Config(m) \in seen THEN [res |-> "hang", m |-> m]
             ELSE UntimedRun(n, moveOld(m, vt[1]), depth,
                             seen \cup {Config(m)})

\* the manager of the call with the timeout and the clock left out
TimelessManager ==
    RunManagerOld(nfh, mgr.initial_assignment, first_initial,
                  mgr.initial_assignment, 0, FALSE)

Timeless == UntimedRun(nfh, TimelessManager, 1, {})

\* C16: with enable_timeout False, a run() that returns has the verdict and
\* the run_history fixed by the automaton and the assignment alone: the same
\* for every timeout (negative, zero, positive) and every clock reading;
\* no deadline check ever stops it.
C16_DisabledTimeoutIgnored ==
    (RunReturned /\ ~arg.enable_timeout) =>
        /\ Timeless.res # "hang"
        /\ ret.value.accepted = Timeless.res
        /\ mgr.run_history = Timeless.m.run_history
        /\ ~mgr.cut

\* a search with a negative timeout that branched, moved and accepted after
\* the clock had advanced past every deadline of the family
C16_Witness ==
    /\ RunReturned
    /\ ~arg.enable_timeout
    /\ arg.timeout = -1
    /\ clock - mgr.start_time > MaxTimeout
    /\ ret.value.accepted = "True"
    /\ Len(mgr.run_history) > 1
    /\ Len(valid_transitions(nfh, TimelessManager)) > 1

\* ------------------------------------------ claims on the search (continued)
\* The run() called on a manager as the constructor built it.
FreshRunCall == op = "RunManager" /\ op' = "run"

\* the characters of the track consumed by the first j transitions of h
Consumed(h, j) == Cardinality({m \in 1..j : h[m][2][1] # Idle})

IdleOnlyWhenEmpty(h, w) ==
    \A i \in 1..Len(h) : h[i][2][1] = Idle => Consumed(h, i - 1) = Len(w)

\* C21: for k = 1, every transition on the idle marker that a run() takes
\* (the run_history it leaves, whether it returns True or False) is taken
\* with the buffer of the track empty.
C21_IdleOnlyOnEmptyBuffer ==
    [][(FreshRunCall /\ nfh.k = 1 /\ ret'.raised = "no") =>
        IdleOnlyWhenEmpty(mgr'.run_history, mgr.variables[1])]_vars

\* C22: after run() returned True the manager itself stands in an accepting
\* state with every buffer empty, and that state is the target of the last
\* transition of its run_history, also when a branch found the run.
C22_ManagerEndsWhereRunEnds ==
    (op = "run" /\ ret = Returns("True")) =>
        /\ acceptingState(nfh, mgr)
        /\ mgr.run_history # <<>> =>
              mgr.current_state = mgr.run_history[Len(mgr.run_history)][3]

\* C23: a run() that returns False leaves the run_history of the manager it
\* was called on empty.
C23_NoHistoryOnFalse ==
    [][(FreshRunCall /\ ret' = Returns("False")) => mgr'.run_history = <<>>]_vars

\* ------------------------------------------ claims on the timeout (continued)
\* the assignment the manager of the direct call was built for has an
\* accepting run
AssignmentAccepted ==
    AcceptingRunExists(nfh, <<first_initial, mgr.initial_assignment>>)

\* the automaton of test_timeout_pruning_finite_wins on the word 'a': from q0
\* an idle self-loop and a step on 'a' to the accepting q1
IdleLoopBesideAccepting ==
    /\ args.delta = {<<"q0", <<Idle>>, "q0">>, <<"q0", <<"a">>, "q1">>}
    /\ args.accepting_states = {"q1"}
    /\ mgr.initial_assignment = <<(<<"a">>)>>

PositiveTimeoutRun == RunReturned /\ arg.enable_timeout /\ arg.timeout > 0

C25_SearchTerminates == op = "run" => ret.raised = "no"

\* C26: in a run() that returns, no configuration (state, buffers) has its
\* valid transitions enumerated twice, whatever paths lead to it.
C26_EachConfigurationExpandedOnce ==
    [][(op' = "run" /\ ret'.raised = "no") =>
        LET expanded == ExpandedFrom(nfh, mgr, <<>>)
        IN  \A i, j \in 1..Len(expanded) : expanded[i] = expanded[j] => i = j]_vars

\* ------------------------------------- claims on the simulator (continued)
\* A branch is decisive for its quantifier when it settles the loop: a
\* success under Exists, a failure under ForAll.
Decisive(q, v) == (q = "E" /\ v = "True") \/ (q = "A" /\ v = "False")

BranchValue(ws) ==
    QuantifiedValue(nfh, first_initial, nfh.alpha, Range(hw), ws)

\* the position of a word in the iteration order of the hyperword
WordIndex(w) == CHOOSE i \in 1..Len(hw) : hw[i] = w

\* ws, the words chosen for the first tracks, is tried: at each level no
\* earlier word of the iteration was decisive.
Tried(ws) ==
    \A p \in 1..Len(ws) :
        \A j \in 1..(WordIndex(ws[p]) - 1) :
            ~Decisive(nfh.alpha[p],
                      BranchValue(Append(SubSeq(ws, 1, p - 1), hw[j])))

\* ws comes before vs in the order the nested loops visit assignments
VisitedBefore(ws, vs) ==
    \E p \in 1..Len(ws) :
        /\ WordIndex(ws[p]) < WordIndex(vs[p])
        /\ \A q \in 1..(p - 1) : ws[q] = vs[q]

\* C27: the assignments check_models builds a RunManager for are, in the
\* order of the nested loops and each once, exactly those in which no
\* earlier word of any level was decisive: nothing is tried or built after
\* the first success under Exists or the first failure under ForAll.
C27_ShortCircuit ==
    Called("check_models") =>
        LET built == ret.value.built
        IN  /\ Range(built) = {ws \in SeqsOfLen(Range(hw), nfh.k) : Tried(ws)}
            /\ \A i, j \in 1..Len(built) :
                  i < j => VisitedBefore(built[i], built[j])

\* ForAll over two words with an inner Exists: the first word fails after
\* both inner words were tried, and the second word is never tried
C27_Witness ==
    /\ Called("check_models")
    /\ nfh.alpha = <<"A", "E">>
    /\ Len(hw) = 2
    /\ ret.value.accepted = "False"
    /\ ret.value.built = << <<hw[1], hw[1]>>, <<hw[1], hw[2]>> >>
    /\ BranchValue(<<hw[2]>>) = "True"

\* the searches of the stack that have read their start time
Started(i) == stack[i].fn = "run" /\ stack[i].pc # "enter"

\* C28: during a run() with the timeout enabled every branch manager that
\* has started has its deadline, start_time + timeout, no later than the
\* deadline of the outer call.
C28_BranchesKeepOuterDeadline ==
    (DirectRun /\ arg.enable_timeout /\ stack # <<>> /\ Started(1)) =>
        \A i \in 2..Len(stack) :
            Started(i) =>
                stack[i].m.start_time + stack[i].m.timeout
                    <= stack[1].m.start_time + stack[1].m.timeout

\* ------------------- specification: RunManager with several initial states
\* One track, both states initial; the constructor is given no
\* initial_state and takes list(initial_states)[0], the first state in the
\* iteration order of the set, which the program does not fix.
InitMulti ==
    /\ args \in {a \in ValidArgs(1) :
                    a.initial_states = StateNames /\ a.alpha = <<"E">>}
    /\ nfh \in {NFHInit(args, tm) : tm \in TransitionMaps(args)}
    /\ first_initial \in args.initial_states
    /\ \E ws \in Assignments(1) : mgr = RunManagerDefault(nfh, first_initial, ws)
    /\ hw = <<>>
    /\ child = NoManager
    /\ op = "RunManager"
    /\ arg = "None"
    /\ ret = Returns("None")
    /\ clock = 0
    /\ stack = <<>>
    /\ heap = <<>>

SpecMulti == InitMulti /\ [][Next]_vars

\* C29: run() on a manager built without an initial_state returns True
\* whenever the assignment has an accepting run from at least one of the
\* initial states.
C29_AnyInitialStateAccepts ==
    [][(FreshRunCall /\ ret'.raised = "no"
            /\ \E q \in nfh.initial_states :
                  AcceptingRunExists(nfh, <<q, mgr.initial_assignment>>))
        => ret' = Returns("True")]_vars

\* ------------------------------------------- buffers as objects (the heap)
\* A deque is an object: heap[r] is the content of deque r, and in a manager
\* of this part variables[i] is the reference r of the buffer of track i.
\* Two managers share a buffer when they hold the same reference.
Deref(h, m) == [i \in 1..Len(m.variables) |-> h[m.variables[i]]]

\* the manager with the contents of its buffers in place of the references
View(h, m) == [m EXCEPT !.variables = Deref(h, m)]

\* deque(w) for each w of contents: new objects, after those of h
Alloc(h, contents) ==
    [heap |-> h \o contents,
     refs |-> [i \in 1..Len(contents) |-> Len(h) + i]]

\* RunManager(nfh, assignment) with a list: one new deque per word
RunManagerListH(h, assignment, initial_state) ==
    LET a == Alloc(h, assignment)
    IN  [heap |-> a.heap,
         mgr |-> [current_state |-> initial_state,
                  variables |-> a.refs,
                  run_history |-> <<>>,
                  initial_assignment |-> assignment]]

\* RunManager(nfh, variables, state) with a dict: "self.variables =
\* assignment", the deques of the dict are kept, not copied
RunManagerDictH(variables, initial_state) ==
    [current_state |-> initial_state,
     variables |-> variables,
     run_history |-> <<>>,
     initial_assignment |-> NoAssignment]

\* move(): popleft() on the deque of every track with a symbol to read
moveH(h, m, t) ==
    [heap |-> [r \in DOMAIN h |->
                  IF \E i \in 1..Len(m.variables) :
                        m.variables[i] = r /\ t[2][i] # Idle /\ h[r] # <<>>
                  THEN Tail(h[r]) ELSE h[r]],
     mgr |-> [m EXCEPT !.current_state = t[3],
                       !.run_history = Append(@, t)]]

branchSharedH(h, m, t) ==
    moveH(h, RunManagerDictH(m.variables, m.current_state), t)

\* branch(): "new_variables[k] = deque(v)" copies every buffer into a new
\* deque, the new manager is built on the copies and moved
branchH(h, m, t) ==
    LET a == Alloc(h, Deref(h, m))
    IN  moveH(a.heap, RunManagerDictH(a.refs, m.current_state), t)

\* run() on the heap: RunFrom with the heap threaded through the calls
RECURSIVE RunFromH(_, _, _, _)
RECURSIVE TryBranchesH(_, _, _, _, _)

TryBranchesH(n, h, m, vt, path) ==
    IF vt = <<>> THEN [res |-> "False", heap |-> h, mgr |-> m]
    ELSE LET b == branchH(h, m, Head(vt))
             c == RunFromH(n, b.heap, b.mgr, path)
         IN  IF c.res = "True"
             THEN [res |-> "True", heap |-> c.heap,
                   mgr |-> [m EXCEPT !.run_history = @ \o c.mgr.run_history]]
             ELSE IF c.res = "False"
             THEN TryBranchesH(n, c.heap, m, Tail(vt), path)
             ELSE [res |-> c.res, heap |-> c.heap, mgr |-> m]

RunFromH(n, h, m, path) ==
    LET v == View(h, m)
    IN  IF acceptingState(n, v) THEN [res |-> "True", heap |-> h, mgr |-> m]
        ELSE LET vt == valid_transitions(n, v)
             IN  IF Len(vt) = 0 THEN [res |-> "False", heap |-> h, mgr |-> m]
                 ELSE IF OnPath(path, v)
                 THEN [res |-> CycleOutcome(path, v), heap |-> h, mgr |-> m]
                 ELSE IF Len(vt) = 1
                 THEN LET mv == moveH(h, m, vt[1])
                      IN  RunFromH(n, mv.heap, mv.mgr,
                              Append(path, [cfg |-> Config(v), branched |-> FALSE]))
                 ELSE TryBranchesH(n, h, m, vt,
                          Append(path, [cfg |-> Config(v), branched |-> TRUE]))

\* ------------------- specification: the branching loop of run() on the heap
\* run() of one manager, step by step at its own level: its deterministic
\* moves, then for each valid transition branch() and the run() of the
\* branch.  arg.todo lists the transitions of the for loop from the one
\* being tried on.
InitHeap ==
    /\ \E k \in 1..MaxArity :
        /\ args \in {a \in ValidArgs(k) :
                        /\ a.initial_states = {"q0"}
                        /\ \A i \in 1..k : a.alpha[i] = "E"}
        /\ \E ws \in Assignments(k) :
            /\ nfh \in {NFHInit(args, tm) : tm \in TransitionMaps(args)}
            /\ first_initial \in args.initial_states
            /\ LET new == RunManagerListH(<<>>, ws, first_initial)
               IN  mgr = new.mgr /\ heap = new.heap
    /\ hw = <<>>
    /\ child = NoManager
    /\ op = "RunManager"
    /\ arg = [todo |-> <<>>]
    /\ ret = Returns("None")
    /\ clock = 0
    /\ stack = <<>>

\* at the top of the while loop
AtLoop == op \in {"RunManager", "move"}

\* (a manager inside an endless loop of moves is followed for HistoryCap
\* moves)
HeapMove ==
    /\ AtLoop
    /\ Len(mgr.run_history) < HistoryCap
    /\ ~acceptingState(nfh, View(heap, mgr))
    /\ Len(valid_transitions(nfh, View(heap, mgr))) = 1
    /\ LET mv == moveH(heap, mgr, valid_transitions(nfh, View(heap, mgr))[1])
       IN  mgr' = mv.mgr /\ heap' = mv.heap
    /\ op' = "move"
    /\ UNCHANGED <<args, nfh, first_initial, hw, child, arg, ret, clock, stack>>

HeapBranch ==
    /\ \/ /\ AtLoop
          /\ ~acceptingState(nfh, View(heap, mgr))
          /\ Len(valid_transitions(nfh, View(heap, mgr))) > 1
          /\ arg' = [todo |-> valid_transitions(nfh, View(heap, mgr))]
       \/ /\ op = "branch_run.run"
          /\ ret = Returns("False")
          /\ Len(arg.todo) > 1
          /\ arg' = [todo |-> Tail(arg.todo)]
    /\ LET b == branchH(heap, mgr, Head(arg'.todo))
       IN  child' = b.mgr /\ heap' = b.heap
    /\ op' = "branch"
    /\ ret' = Returns("None")
    /\ UNCHANGED <<args, nfh, first_initial, hw, mgr, clock, stack>>

HeapBranchRun ==
    /\ op = "branch"
    /\ LET r == RunFromH(nfh, heap, child, <<>>)
       IN  /\ child' = r.mgr
           /\ heap' = r.heap
           /\ ret' = RunOutcome(r)
           /\ mgr' = IF r.res = "True"
                     THEN [mgr EXCEPT !.run_history = @ \o r.mgr.run_history]
                     ELSE mgr
    /\ op' = "branch_run.run"
    /\ UNCHANGED <<args, nfh, first_initial, hw, arg, clock, stack>>

HeapRunReturns ==
    /\ \/ /\ AtLoop
          /\ acceptingState(nfh, View(heap, mgr))
          /\ ret' = Returns("True")
       \/ /\ AtLoop
          /\ ~acceptingState(nfh, View(heap, mgr))
          /\ Len(valid_transitions(nfh, View(heap, mgr))) = 0
          /\ ret' = Returns("False")
       \/ /\ op = "branch_run.run"
          /\ ret = Returns("True")
          /\ ret' = ret
       \/ /\ op = "branch_run.run"
          /\ ret = Returns("False")
          /\ Len(arg.todo) = 1
          /\ ret' = ret
    /\ op' = "run"
    /\ UNCHANGED <<args, nfh, first_initial, hw, mgr, child, arg, clock, stack,
                   heap>>

NextHeap == HeapMove \/ HeapBranch \/ HeapBranchRun \/ HeapRunReturns

SpecHeap == InitHeap /\ [][NextHeap]_vars

\* ------------------------------------------------- claims on backtracking
\* C30: creating a branch and running it to a failure leave the parent's
\* current_state, buffers and run_history as they were; the branch starts on
\* buffers of its own (no deque shared with the parent) holding the parent's
\* contents less what its first transition reads, so nothing an earlier
\* branch consumed shows in the parent or in a later sibling.
C30_BacktrackingIsolated ==
    [][/\ op' = "branch" =>
            /\ View(heap', mgr') = View(heap, mgr)
            /\ Deref(heap', child') = Consume(Deref(heap, mgr), Head(arg'.todo))
            /\ \A i \in 1..Len(child'.variables), j \in 1..Len(mgr'.variables) :
                  child'.variables[i] # mgr'.variables[j]
       /\ (op = "branch" /\ ret' = Returns("False")) =>
            View(heap', mgr') = View(heap, mgr)]_vars

\* the second alternative failed after consuming input in a move of its
\* own, the parent still holds its whole assignment
C30_Witness ==
    /\ op = "branch_run.run"
    /\ ret = Returns("False")
    /\ Len(arg.todo) = 1
    /\ Len(child.run_history) >= 2
    /\ \E i \in 1..Len(child.variables) :
          Len(Deref(heap, child)[i]) < Len(Deref(heap, mgr)[i])
    /\ Deref(heap, mgr) = mgr.initial_assignment
    /\ mgr.run_history = <<>>

\* ----------------------------------- partial assignments as objects (dicts)
\* In this part heap[r] is the content of dict r, a function from track
\* indices to words, and a frame of check_models holds the reference of the
\* assignment it was called with.
MaxDictDelta == 1

DictCopyAlias(h, r) == [heap |-> h, ref |-> r]

\* assignment.copy(): a new dict with the entries of the old one
DictCopy(h, r) == [heap |-> Append(h, h[r]), ref |-> Len(h) + 1]

\* d[key] = value on the dict r
DictSet(h, r, key, value) == [h EXCEPT ![r] = Extend(h[r], key, value)]

\* "new_assignment = assignment.copy(); new_assignment[var_idx] = word"
new_assignment(h, r, var_idx, word) ==
    LET c == DictCopy(h, r)
    IN  [heap |-> DictSet(c.heap, c.ref, var_idx, word), ref |-> c.ref]

\* A frame of check_models: pc is "for" at the entry and at the head of the
\* loop over S, "wait" during the recursive call for the word S[i].
DictFrame(quantifiers, assignment) ==
    [quantifiers |-> quantifiers, assignment |-> assignment, i |-> 1,
     all_managers |-> <<>>, pc |-> "for"]

Pair(accepted, managers) == [accepted |-> accepted, managers |-> managers]

\* -------------- specification: check_models step by step, on the dict heap
\* check_models(A, S, zip(alpha, 1..k), {}) on every automaton NFH.__init__
\* accepts with at most MaxDictDelta transitions and every hyperword.
InitDict ==
    /\ \E k \in 0..MaxArity :
        /\ args \in {a \in NFHArgs(k) :
                        /\ NFHAsserts(a)
                        /\ a.initial_states = {"q0"}
                        /\ Cardinality(a.delta) <= MaxDictDelta}
        /\ nfh \in {NFHInit(args, tm) : tm \in TransitionMaps(args)}
        /\ first_initial \in args.initial_states
    /\ hw \in Hyperwords
    /\ heap = <<EmptyAssignment>>
    /\ stack = <<DictFrame(Quantifiers(nfh), 1)>>
    /\ mgr = NoManager
    /\ child = NoManager
    /\ op = "args"
    /\ arg = "None"
    /\ ret = Returns(Pair("None", <<>>))
    /\ clock = 0

AtFor == stack # <<>> /\ stack[Len(stack)].pc = "for"

\* "return v": the frame is dropped; the caller, if any, finds v in ret
DictReturn(v) ==
    /\ stack' = SubSeq(stack, 1, Len(stack) - 1)
    /\ ret' = Returns(v)
    /\ op' = IF Len(stack) = 1 THEN "check_models" ELSE "return"

\* no quantifier left: the final assignment is read from the dict, the
\* manager is built and run
DictLeaf ==
    /\ AtFor
    /\ stack[Len(stack)].quantifiers = <<>>
    /\ LET assignment == heap[stack[Len(stack)].assignment]
       IN  IF \E i \in 1..nfh.k : i \notin DOMAIN assignment
           THEN stack' = <<>> /\ ret' = Raises("KeyError") /\ op' = "check_models"
           ELSE LET r == Leaf(nfh, first_initial,
                              [i \in 1..nfh.k |-> assignment[i]])
                IN  IF r.res \in {"True", "False"}
                    THEN DictReturn(Pair(r.res, r.managers))
                    ELSE /\ stack' = <<>>
                         /\ ret' = [raised |-> r.res, value |-> Pair("None", <<>>)]
                         /\ op' = "check_models"
    /\ UNCHANGED <<args, nfh, first_initial, hw, mgr, child, arg, clock, heap>>

\* "if len(S) == 0: return ..."
DictEmpty ==
    /\ AtFor
    /\ stack[Len(stack)].quantifiers # <<>>
    /\ Len(hw) = 0
    /\ DictReturn(Pair(IF stack[Len(stack)].quantifiers[1][1] = "A"
                       THEN "True" ELSE "False", <<>>))
    /\ UNCHANGED <<args, nfh, first_initial, hw, mgr, child, arg, clock, heap>>

\* one turn of "for word in S": the copy is extended and the recursive call
\* made
DictWord ==
    /\ AtFor
    /\ stack[Len(stack)].quantifiers # <<>>
    /\ Len(hw) # 0
    /\ LET f == stack[Len(stack)]
           n == new_assignment(heap, f.assignment, f.quantifiers[1][2], hw[f.i])
       IN  /\ heap' = n.heap
           /\ stack' = Append([stack EXCEPT ![Len(stack)].pc = "wait"],
                              DictFrame(Tail(f.quantifiers), n.ref))
    /\ op' = "call"
    /\ UNCHANGED <<args, nfh, first_initial, hw, mgr, child, arg, ret, clock>>

\* the recursive call returned (success, managers): the loop returns or
\* goes on with the next word
DictResume ==
    /\ stack # <<>>
    /\ stack[Len(stack)].pc = "wait"
    /\ LET f == stack[Len(stack)]
           success == ret.value.accepted = "True"
           managers == ret.value.managers
           last == f.i = Len(hw)
       IN  IF f.quantifiers[1][1] = "E"
           THEN IF success THEN DictReturn(Pair("True", managers))
                ELSE IF last THEN DictReturn(Pair("False", <<>>))
                ELSE /\ stack' = [stack EXCEPT ![Len(stack)].i = @ + 1,
                                               ![Len(stack)].pc = "for"]
                     /\ UNCHANGED <<ret, op>>
           ELSE IF ~success THEN DictReturn(Pair("False", <<>>))
                ELSE IF last
                THEN DictReturn(Pair("True", f.all_managers \o managers))
                ELSE /\ stack' = [stack EXCEPT
                                     ![Len(stack)].i = @ + 1,
                                     ![Len(stack)].pc = "for",
                                     ![Len(stack)].all_managers = @ \o managers]
                     /\ UNCHANGED <<ret, op>>
    /\ UNCHANGED <<args, nfh, first_initial, hw, mgr, child, arg, clock, heap>>

NextDict == DictLeaf \/ DictEmpty \/ DictWord \/ DictResume

SpecDict == InitDict /\ [][NextDict]_vars

\* ------------------------------------- claims on the partial assignments
\* the dict of the frame at depth j binds exactly the tracks of the
\* quantifiers above it, each to the word its frame is iterating on
FrameBindings(stk, h) ==
    \A j \in 1..Len(stk) :
        LET assignment == h[stk[j].assignment]
        IN  /\ DOMAIN assignment = 1..(j - 1)
            /\ \A p \in 1..(j - 1) : assignment[p] = hw[stk[p].i]

\* C31: check_models never changes a dict it was given: every step of the
\* recursion leaves each existing dict as it was (a branch binds its track
\* in a new copy), so at any moment, and so after any recursive call
\* returned with either verdict, the assignment of each active call holds
\* what it held when the call was made: the tracks of the quantifiers above
\* it, bound to the words those loops are at, and nothing bound for another
\* word.
C31_AssignmentNeverMutated ==
    [][/\ \A r \in 1..Len(heap) : heap'[r] = heap[r]
       /\ FrameBindings(stack', heap')]_vars

\* two quantifiers: the branch for the first word returned, the outer loop is
\* at its second word and so is the inner one, about to run the base case
C31_Witness ==
    /\ Len(stack) = 3
    /\ stack[1].i = 2
    /\ stack[2].i = 2
    /\ heap[stack[1].assignment] = EmptyAssignment
    /\ DOMAIN heap[stack[2].assignment] = {1}
    /\ heap[stack[2].assignment][1] = hw[2]
    /\ \E r \in 1..Len(heap) : 1 \in DOMAIN heap[r] /\ heap[r][1] = hw[1]

\* ------------------------------ the automaton and the hyperword as objects
\* In this part heap[r] is the content of list r, and in the NFH
\* transition_map[s] is the reference of the list of the state s: a caller
\* that gets hold of such a list could change the automaton through it.
NFHObj(a, tm) ==
    LET order == CHOOSE p \in Perms(a.states) : TRUE
    IN  [heap |-> [i \in 1..Len(order) |-> tm[order[i]]],
         nfh |-> NFHInit(a, [s \in a.states |->
                     CHOOSE i \in 1..Len(order) : order[i] = s])]

\* the automaton with the contents of its lists in place of the references
NFHView(h, n) ==
    [n EXCEPT !.transition_map = [s \in DOMAIN @ |-> h[@[s]]]]

valid_transitionsInPlace(h, n, m) ==
    LET r == n.transition_map[m.current_state]
        ok(t) == TransitionValid(m, t)
    IN  [heap |-> [h EXCEPT ![r] = SelectSeq(@, ok)],
         value |-> SelectSeq(h[r], ok)]

\* valid_transitions(): possible_transitions is the list of the map itself;
\* it is read, and the valid ones are appended to a list of the call's own
valid_transitionsL(h, n, m) ==
    LET possible_transitions == h[n.transition_map[m.current_state]]
        ok(t) == TransitionValid(m, t)
    IN  [heap |-> h, value |-> SelectSeq(possible_transitions, ok)]

\* run() with the lists threaded through the calls of valid_transitions()
RECURSIVE RunFromL(_, _, _, _)
RECURSIVE TryBranchesL(_, _, _, _, _)

TryBranchesL(n, h, m, vt, path) ==
    IF vt = <<>> THEN [res |-> "False", heap |-> h, mgr |-> m]
    ELSE LET c == RunFromL(n, h, branch(n, m, Head(vt)), path)
         IN  IF c.res = "True"
             THEN [res |-> "True", heap |-> c.heap,
                   mgr |-> [m EXCEPT !.run_history = @ \o c.mgr.run_history]]
             ELSE IF c.res = "False"
             THEN TryBranchesL(n, c.heap, m, Tail(vt), path)
             ELSE [res |-> c.res, heap |-> c.heap, mgr |-> m]

RunFromL(n, h, m, path) ==
    IF acceptingState(n, m) THEN [res |-> "True", heap |-> h, mgr |-> m]
    ELSE LET v == valid_transitionsL(h, n, m)
             vt == v.value
         IN  IF Len(vt) = 0 THEN [res |-> "False", heap |-> v.heap, mgr |-> m]
             ELSE IF OnPath(path, m)
             THEN [res |-> CycleOutcome(path, m), heap |-> v.heap, mgr |-> m]
             ELSE IF Len(vt) = 1
             THEN RunFromL(n, v.heap, move(m, vt[1]),
                      Append(path, [cfg |-> Config(m), branched |-> FALSE]))
             ELSE TryBranchesL(n, v.heap, m, vt,
                      Append(path, [cfg |-> Config(m), branched |-> TRUE]))

IterPop(S) == [word |-> S[1], S |-> Tail(S)]

\* next(iter(S)): the first word of the iteration; the set keeps it
IterNext(S) == [word |-> S[1], S |-> S]

\* check_models with the lists threaded through the searches; i is the
\* position of "for word in S"
RECURSIVE check_modelsL(_, _, _, _, _, _, _)
check_modelsL(h, n, fi, S, quantifiers, assignment, i) ==
    IF quantifiers = <<>>
    THEN LET r == RunFromL(n, h, RunManagerDefault(n, fi,
                               [j \in 1..n.k |-> assignment[j]]), <<>>)
         IN  [res |-> r.res, heap |-> r.heap]
    ELSE IF Len(S) = 0 \/ i > Len(S)
    THEN [res |-> IF Head(quantifiers)[1] = "A" THEN "True" ELSE "False",
          heap |-> h]
    ELSE LET r == check_modelsL(h, n, fi, S, Tail(quantifiers),
                      Extend(assignment, Head(quantifiers)[2], S[i]), 1)
         IN  IF r.res \notin {"True", "False"}
                \/ Decisive(Head(quantifiers)[1], r.res)
             THEN r
             ELSE check_modelsL(r.heap, n, fi, S, quantifiers, assignment, i + 1)

checkMembershipL(h, n, fi, S) ==
    IF Len(S) = 1
    THEN LET it == IterNext(S)
             r == RunFromL(n, h, RunManagerDefault(n, fi,
                               [j \in 1..n.k |-> it.word]), <<>>)
         IN  [res |-> r.res, heap |-> r.heap, S |-> it.S]
    ELSE LET r == check_modelsL(h, n, fi, S, Quantifiers(n), EmptyAssignment, 1)
         IN  [res |-> r.res, heap |-> r.heap, S |-> S]

\* ----------- specification: the operations on a shared automaton and hyperword
\* One track; a manager is built for a word of the hyperword and moved,
\* branched and run, or checkMembership is called.
ObjHyperwords == UNION {Perms(X) : X \in SubsetsUpTo(Words, MaxWords)}

InitObj ==
    /\ args \in {a \in ValidArgs(1) : a.initial_states = {"q0"}}
    /\ \E tm \in TransitionMaps(args) :
          /\ nfh = NFHObj(args, tm).nfh
          /\ heap = NFHObj(args, tm).heap
    /\ first_initial \in args.initial_states
    /\ hw \in ObjHyperwords
    /\ mgr = NoManager
    /\ child = NoManager
    /\ op = "args"
    /\ arg = "None"
    /\ ret = Returns("None")
    /\ clock = 0
    /\ stack = <<>>

ObjRunManager ==
    /\ op = "args"
    /\ \E i \in 1..Len(hw) :
          mgr' = RunManagerDefault(nfh, first_initial, <<hw[i]>>)
    /\ op' = "RunManager"
    /\ UNCHANGED <<args, nfh, first_initial, hw, child, arg, ret, clock, stack, heap>>

ObjValidTransitions ==
    /\ Callable
    /\ LET v == valid_transitionsL(heap, nfh, mgr)
       IN  heap' = v.heap /\ ret' = Returns(v.value)
    /\ op' = "valid_transitions"
    /\ UNCHANGED <<args, nfh, first_initial, hw, mgr, child, arg, clock, stack>>

ObjMove ==
    /\ Callable
    /\ Len(mgr.run_history) < MaxMoves
    /\ \E t \in nfh.delta :
        /\ MoveAsserts(nfh, mgr, t)
        /\ arg' = t
        /\ mgr' = move(mgr, t)
        /\ ret' = IF MoveRaises(mgr, t) THEN Raises("IndexError")
                  ELSE Returns("None")
    /\ op' = "move"
    /\ UNCHANGED <<args, nfh, first_initial, hw, child, clock, stack, heap>>

ObjBranch ==
    /\ Callable
    /\ \E t \in nfh.delta :
        /\ MoveAsserts(nfh, mgr, t)
        /\ arg' = t
        /\ IF MoveRaises(mgr, t)
           THEN ret' = Raises("IndexError") /\ child' = child
           ELSE ret' = Returns("RunManager") /\ child' = branch(nfh, mgr, t)
    /\ op' = "branch"
    /\ UNCHANGED <<args, nfh, first_initial, hw, mgr, clock, stack, heap>>

ObjRun ==
    /\ Callable
    /\ LET r == RunFromL(nfh, heap, mgr, <<>>)
       IN  mgr' = r.mgr /\ heap' = r.heap /\ ret' = RunOutcome(r)
    /\ op' = "run"
    /\ arg' = "None"
    /\ UNCHANGED <<args, nfh, first_initial, hw, child, clock, stack>>

ObjCheckMembership ==
    /\ op = "args"
    /\ LET r == checkMembershipL(heap, nfh, first_initial, hw)
       IN  heap' = r.heap /\ hw' = r.S /\ ret' = RunOutcome(r)
    /\ op' = "checkMembership"
    /\ UNCHANGED <<args, nfh, first_initial, mgr, child, arg, clock, stack>>

NextObj ==
    \/ ObjRunManager \/ ObjValidTransitions \/ ObjMove \/ ObjBranch
    \/ ObjRun \/ ObjCheckMembership

SpecObj == InitObj /\ [][NextObj]_vars

\* --------------------------------------------- claims on the shared objects
\* C32: no operation of the search changes the automaton or the hyperword:
\* across a RunManager construction and every valid_transitions, move,
\* branch, run and checkMembership call the states, initial_states,
\* accepting_states, delta, alpha and the lists of transition_map of the NFH
\* are what they were before the call, hence what the constructor left, and
\* the words of the hyperword are the same.
C32_AutomatonAndHyperwordUnchanged ==
    [][/\ NFHView(heap', nfh') = NFHView(heap, nfh)
       /\ hw' = hw]_vars

\* a search that branched and backtracked has returned, on an automaton
\* whose start state has a transition the word does not allow
C32_Witness ==
    /\ op = "run"
    /\ Len(mgr.run_history) >= 2
    /\ Len(NFHView(heap, nfh).transition_map["q0"]) = 2
    /\ \E t \in nfh.delta : t[1] = "q0" /\ t[2][1] \notin {Idle, mgr.initial_assignment[1][1]}
    /\ NFHView(heap, nfh) \in {NFHInit(args, tm) : tm \in TransitionMaps(args)}

\* ------------------------------------------ claims on the search (buffers)
\* The steps a run() makes, each as <<buffers before, buffers after>>: its
\* own moves and the first moves of the branches it tries, those made inside
\* the branches included.
RECURSIVE SearchSteps(_, _, _)
RECURSIVE BranchSteps(_, _, _, _)

BranchSteps(n, m, vt, path) ==
    IF vt = <<>> THEN {}
    ELSE LET b == branch(n, m, Head(vt))
         IN  {<<m.variables, b.variables>>} \cup SearchSteps(n, b, path) \cup
             (IF RunFrom(n, b, path).res = "False"
              THEN BranchSteps(n, m, Tail(vt), path) ELSE {})

SearchSteps(n, m, path) ==
    IF acceptingState(n, m) THEN {}
    ELSE LET vt == valid_transitions(n, m)
         IN  IF Len(vt) = 0 \/ OnPath(path, m) THEN {}
             ELSE IF Len(vt) = 1
             THEN {<<m.variables, move(m, vt[1]).variables>>} \cup
                  SearchSteps(n, move(m, vt[1]),
                      Append(path, [cfg |-> Config(m), branched |-> FALSE]))
             ELSE BranchSteps(n, m, vt,
                      Append(path, [cfg |-> Config(m), branched |-> TRUE]))

IsSuffix(b, w) ==
    Len(b) <= Len(w) /\ b = SubSeq(w, Len(w) - Len(b) + 1, Len(w))

\* each buffer of after is what is left of the same buffer of before
Advanced(before, after) ==
    \A i \in 1..Len(before) : IsSuffix(after[i], before[i])

\* C33: the buffer of every track is always a suffix of the word assigned to
\* the track, in the manager the calls act on, in the manager branch()
\* returns and in every configuration a run() goes through; every move
\* leaves of each buffer a suffix of what it held, so the number of
\* characters consumed never decreases and stays between 0 and the length of
\* the word.
C33_BuffersAreSuffixes ==
    [][/\ Advanced(mgr'.initial_assignment, mgr'.variables)
       /\ Advanced(mgr.variables, mgr'.variables)
       /\ (op' = "branch" /\ ret'.raised = "no") =>
             Advanced(mgr.variables, child'.variables)
       /\ op' = "run" =>
             \A s \in SearchSteps(nfh, mgr, <<>>) :
                 /\ Advanced(s[1], s[2])
                 /\ Advanced(mgr.initial_assignment, s[2])]_vars

\* a search over two tracks that branched at its start and consumed the
\* whole assignment in some branch, a word of two characters among it, the
\* last character by a step of its own
C33_Witness ==
    /\ RanFresh
    /\ nfh.k = 2
    /\ Cardinality(SearchSteps(nfh, Fresh, <<>>)) >= 3
    /\ \E s \in SearchSteps(nfh, Fresh, <<>>) :
          /\ s[2] = <<(<<>>), (<<>>)>>
          /\ s[1] # Fresh.variables
    /\ \E i \in 1..2 : Len(Fresh.variables[i]) = 2

\* ------------------------------------ claims on the simulator (the orders)
\* the same automaton with another order of its transition lists
Reordered == {NFHInit(args, tm) : tm \in TransitionMaps(args)}

\* the call that produced this state, made again on the automaton n and on
\* the hyperword in the iteration order S
Again(n, S) ==
    IF op = "checkMembership" THEN checkMembership(n, first_initial, S)
    ELSE check_models(n, first_initial, S, Quantifiers(n), EmptyAssignment)

\* every search over words of the hyperword returns, under every order
EverySearchTerminates ==
    \A n \in Reordered : \A ws \in SeqsOfLen(Range(hw), nfh.k) :
        Accept(n, first_initial, ws) \in {"True", "False"}

\* C34: the boolean of checkMembership and of check_models does not depend
\* on the order in which the words of S are iterated nor on the order in
\* which the transitions of a state are enumerated: two evaluations of the
\* same automaton and hyperword that both return, return the same boolean,
\* and so do two run() searches of the same assignment; in particular on
\* inputs on which every search terminates.
C34_VerdictIndependentOfOrder ==
    (Called("checkMembership") \/ Called("check_models")) =>
        /\ \A n \in Reordered : \A S \in Perms(Range(hw)) :
              Again(n, S).res \in {"True", "False"} =>
                  Again(n, S).res = ret.value.accepted
        /\ \A n \in Reordered : \A ws \in SeqsOfLen(Range(hw), nfh.k) :
              (/\ Accept(n, first_initial, ws) \in {"True", "False"}
               /\ Accept(nfh, first_initial, ws) \in {"True", "False"}) =>
                  Accept(n, first_initial, ws) = Accept(nfh, first_initial, ws)

\* every search terminates, the verdict is True, and another order of the
\* words and of the transitions gives True with another witness
C34_Witness ==
    /\ Called("check_models")
    /\ EverySearchTerminates
    /\ ret.value.accepted = "True"
    /\ Len(hw) = 2
    /\ \E n \in Reordered \ {nfh} :
          /\ Again(n, <<hw[2], hw[1]>>).res = "True"
          /\ AssignmentsOf(Again(n, <<hw[2], hw[1]>>).managers)
                # AssignmentsOf(ret.value.managers)
          /\ \E i \in 1..Len(ret.value.managers) :
                Again(n, hw).managers[i].run_history
                    # ret.value.managers[i].run_history

\* --------------------------------------- claims on the search (resources)
\* Of the paths a run() explores from m: len, the most transitions on one
\* of them; depth, the most branch() calls nested in one another.
RECURSIVE PathStats(_, _, _)
RECURSIVE BranchStats(_, _, _, _)

Larger(a, b) == IF a >= b THEN a ELSE b

BranchStats(n, m, vt, path) ==
    IF vt = <<>> THEN [len |-> 0, depth |-> 0]
    ELSE LET b == branch(n, m, Head(vt))
             below == PathStats(n, b, path)
             rest == IF RunFrom(n, b, path).res = "False"
                     THEN BranchStats(n, m, Tail(vt), path)
                     ELSE [len |-> 0, depth |-> 0]
         IN  [len |-> Larger(1 + below.len, rest.len),
              depth |-> Larger(1 + below.depth, rest.depth)]

PathStats(n, m, path) ==
    IF acceptingState(n, m) THEN [len |-> 0, depth |-> 0]
    ELSE LET vt == valid_transitions(n, m)
         IN  IF Len(vt) = 0 \/ OnPath(path, m) THEN [len |-> 0, depth |-> 0]
             ELSE IF Len(vt) = 1
             THEN LET below == PathStats(n, move(m, vt[1]),
                          Append(path, [cfg |-> Config(m), branched |-> FALSE]))
                  IN  [len |-> 1 + below.len, depth |-> below.depth]
             ELSE BranchStats(n, m, vt,
                      Append(path, [cfg |-> Config(m), branched |-> TRUE]))

NoAllIdle(n) == \A t \in n.delta : \E i \in 1..Len(t[2]) : t[2][i] # Idle

RECURSIVE ConfigAfter(_, _, _)
ConfigAfter(c, hist, j) ==
    IF j = 0 THEN c
    ELSE LET before == ConfigAfter(c, hist, j - 1)
         IN  <<hist[j][3], Consume(before[2], hist[j])>>

\* the transitions the run() of this step added to run_history
Added == SubSeq(mgr'.run_history, Len(mgr.run_history) + 1, Len(mgr'.run_history))

\* C36: run() tests acceptance before it looks at the transitions: called in
\* an accepting state with every buffer empty it returns True and leaves the
\* manager, its run_history included, as it was, whatever transitions are
\* applicable; and the transitions a successful run() adds to the history
\* pass through no accepting state with every buffer empty before their
\* end.
C36_AcceptanceCheckedFirst ==
    [][/\ (op' = "run" /\ acceptingState(nfh, mgr)) =>
             (ret' = Returns("True") /\ mgr' = mgr)
       /\ (op' = "run" /\ ret' = Returns("True")) =>
             \A j \in 0..(Len(Added) - 1) :
                 ~CleanAccepting(nfh, ConfigAfter(Config(mgr), Added, j))]_vars

\* the empty assignment in an accepting start state with two applicable
\* idle transitions, one of them to an accepting state
C36_Witness ==
    /\ RanFresh
    /\ acceptingState(nfh, Fresh)
    /\ Len(valid_transitions(nfh, Fresh)) = 2
    /\ \E t \in nfh.delta : t[1] = "q0" /\ t[3] = "q1"
    /\ nfh.accepting_states = StateNames
    /\ ret = Returns("True")
    /\ mgr.run_history = <<>>

\* ---------------------------------- claims on the search (calls of move)
\* The calls of move() a run() makes, each as <<manager, transition>>: on
\* the manager itself for a single valid transition, and inside branch() on
\* the manager built for the branch, the calls made inside the branches
\* included.
RECURSIVE MoveCalls(_, _, _)
RECURSIVE BranchMoveCalls(_, _, _, _)

BranchMoveCalls(n, m, vt, path) ==
    IF vt = <<>> THEN {}
    ELSE LET b == branch(n, m, Head(vt))
         IN  {<<RunManagerFromDict(n, m.variables, m.current_state), Head(vt)>>}
             \cup MoveCalls(n, b, path) \cup
             (IF RunFrom(n, b, path).res = "False"
              THEN BranchMoveCalls(n, m, Tail(vt), path) ELSE {})

MoveCalls(n, m, path) ==
    IF acceptingState(n, m) THEN {}
    ELSE LET vt == valid_transitions(n, m)
         IN  IF Len(vt) = 0 \/ OnPath(path, m) THEN {}
             ELSE IF Len(vt) = 1
             THEN {<<m, vt[1]>>} \cup
                  MoveCalls(n, move(m, vt[1]),
                      Append(path, [cfg |-> Config(m), branched |-> FALSE]))
             ELSE BranchMoveCalls(n, m, vt,
                      Append(path, [cfg |-> Config(m), branched |-> TRUE]))

\* C37: every move() a run() makes gets a transition that is applicable in
\* the configuration of the manager it is called on: it is in delta and
\* leaves current_state, so the asserts of move() pass, and each symbol it
\* reads is the first character of a non-empty buffer, so no popleft() hits
\* an empty deque or removes another character.
C37_SearchMovesAreValid ==
    [][op' = "run" =>
        \A c \in MoveCalls(nfh, mgr, <<>>) :
            /\ MoveAsserts(nfh, c[1], c[2])
            /\ Applicable(c[1].variables, c[2])
            /\ ~MoveRaises(c[1], c[2])]_vars

\* a search over two tracks that made three moves or more, one of them on a
\* manager that had moved before, one with the idle marker on a track that
\* had input left
C37_Witness ==
    /\ RanFresh
    /\ nfh.k = 2
    /\ Cardinality(MoveCalls(nfh, Fresh, <<>>)) >= 3
    /\ \E c \in MoveCalls(nfh, Fresh, <<>>) : c[1].run_history # <<>>
    /\ \E c \in MoveCalls(nfh, Fresh, <<>>) :
          \E i \in 1..2 : c[2][2][i] = Idle /\ c[1].variables[i] # <<>>

\* --------------------------- claims on the partial assignments (base case)
\* check_models is at its base case: entered with no quantifier left
AtBaseCase == AtFor /\ stack[Len(stack)].quantifiers = <<>>

\* C38: when check_models, called as checkMembership calls it, reaches its
\* base case, the assignment it holds binds exactly the tracks 1..k, each to
\* a word of S, so that reading assignment[1..k] misses no key; below the
\* base case the stack holds one frame for each quantifier, k in all, the
\* j-th working on the quantifier of track j.
C38_BaseCaseAssignmentComplete ==
    /\ AtBaseCase =>
          LET assignment == heap[stack[Len(stack)].assignment]
          IN  /\ DOMAIN assignment = 1..nfh.k
              /\ \A i \in 1..nfh.k : assignment[i] \in Range(hw)
              /\ Len(stack) = nfh.k + 1
              /\ \A j \in 1..nfh.k :
                    /\ stack[j].pc = "wait"
                    /\ Head(stack[j].quantifiers) = <<nfh.alpha[j], j>>
    /\ ret.raised # "KeyError"

\* two quantifiers over two words: the base case is reached with the second
\* word on track 1 and the first on track 2
C38_Witness ==
    /\ AtBaseCase
    /\ nfh.k = 2
    /\ Len(hw) = 2
    /\ heap[stack[3].assignment][1] = hw[2]
    /\ heap[stack[3].assignment][2] = hw[1]

\* ------------------------------------- the visualizer's replay of a run
\* _visualize_run_interactive(automaton, run_history, initial_assignment),
\* its data preparation: what it prints when it refuses, and the lists
\* states_data and cursor_history it replays.
cursorsCountIdle(run_history, k, step) ==
    [t \in 1..k |-> step]

\* current_cursors after the first step transitions: one more for every
\* symbol of the track that is not the idle marker
cursors(run_history, k, step) ==
    [t \in 1..k |->
        Cardinality({j \in 1..step : t <= Len(run_history[j][2])
                                       /\ run_history[j][2][t] # Idle})]

states_data(run_history) ==
    <<run_history[1][1]>> \o [j \in 1..Len(run_history) |-> run_history[j][3]]

cursor_history(run_history, k) ==
    [s \in 1..(Len(run_history) + 1) |-> cursors(run_history, k, s - 1)]

Replay(printed, states, cursor_lists) ==
    [printed |-> printed, states_data |-> states, cursor_history |-> cursor_lists]

visualize_run_interactive(run_history, initial_assignment) ==
    IF run_history = <<>>
    THEN Replay("No run history to visualize.", <<>>, <<>>)
    ELSE IF initial_assignment = <<>>
    THEN Replay("Initial assignment is required for visualization.", <<>>, <<>>)
    ELSE Replay("None", states_data(run_history),
                cursor_history(run_history, Len(initial_assignment)))

\* ----------------- specification: a run() and the visualizer's replay of it
\* A manager is built and run; the history of a successful run is handed to
\* the visualizer with the assignment the manager was built for.
InitViz ==
    /\ \E k \in 0..MaxArity :
        /\ args \in {a \in ValidArgs(k) :
                        /\ a.initial_states = {"q0"}
                        /\ \A i \in 1..k : a.alpha[i] = "E"}
        /\ \E ws \in Assignments(k) :
            /\ nfh \in {NFHInit(args, tm) : tm \in TransitionMaps(args)}
            /\ first_initial \in args.initial_states
            /\ mgr = RunManagerInit(nfh, ws, first_initial)
    /\ hw = <<>>
    /\ child = NoManager
    /\ op = "RunManager"
    /\ arg = "None"
    /\ ret = Returns("None")
    /\ clock = 0
    /\ stack = <<>>
    /\ heap = <<>>

Visualize ==
    /\ op = "run"
    /\ ret = Returns("True")
    /\ op' = "visualize_run"
    /\ arg' = [run_history |-> mgr.run_history,
               initial_assignment |-> mgr.initial_assignment]
    /\ ret' = Returns(visualize_run_interactive(mgr.run_history,
                                                mgr.initial_assignment))
    /\ UNCHANGED <<args, nfh, first_initial, hw, mgr, child, clock, stack, heap>>

NextViz == Run \/ Visualize

SpecViz == InitViz /\ [][NextViz]_vars

\* ------------------------------------------------ claims on the visualizer
\* the manager after RunManager.move made the first i transitions of h, one
\* after the other, from the manager the constructor built
RECURSIVE Moved(_, _)
Moved(h, i) == IF i = 0 THEN Fresh ELSE move(Moved(h, i - 1), h[i])

\* the characters those moves removed from each track
ConsumedByMoves(h, i) ==
    [t \in 1..Len(Fresh.variables) |->
        Len(Fresh.variables[t]) - Len(Moved(h, i).variables[t])]

\* the replay agrees with the moves at every step, and ends with every
\* cursor at the end of its word
ReplayAgrees ==
    LET h == arg.run_history
        v == ret.value
    IN  /\ Len(v.states_data) = Len(h) + 1
        /\ Len(v.cursor_history) = Len(h) + 1
        /\ \A i \in 0..Len(h) :
              /\ v.cursor_history[i + 1] = ConsumedByMoves(h, i)
              /\ v.states_data[i + 1] = Moved(h, i).current_state
              /\ v.states_data[i + 1] =
                    IF i = 0 THEN first_initial ELSE h[i][3]
        /\ \A t \in 1..nfh.k :
              v.cursor_history[Len(h) + 1][t] = Len(arg.initial_assignment[t])

====
